---------------------------- MODULE Spec2Model ----------------------------
(***************************************************************************)
(* A model of oas-js: the OpenAPI specification container, the endpoint    *)
(* descriptor, parameter conversion, the per-call pipeline and the schema  *)
(* compiler.                                                               *)
(*                                                                         *)
(* JavaScript strings that the code inspects or concatenates are sequences *)
(* of one-character strings, so that toLowerCase, concatenation and        *)
(* numeric coercion are computed and not assumed.  JavaScript objects that *)
(* the code shares by reference live in explicit heaps (eps for endpoint   *)
(* objects, heap for schema objects), so that aliasing is visible.         *)
(***************************************************************************)
EXTENDS Integers, Sequences, FiniteSets, TLC

VARIABLES
    \* ---- specification container and endpoint descriptors
    eps,        \* endpoint objects by identity: id -> Endpoint fields
    endpoints,  \* OpenAPI.endpoints: operationId key -> endpoint identity
    docPaths,   \* OpenAPI.doc.paths: path -> (method -> endpoint identity of the doc)
    lastCall,   \* the last builder call and whether it threw
    \* ---- convertParamType
    cv,         \* the last conversion: its input and its outcome
    \* ---- one invocation of Endpoint.call
    ep,         \* the defined endpoint the call runs on (read only during calls)
    call,       \* the invocation: its position, Data, Response record, transport writes
    \* ---- schema compilation
    heap,       \* the schema objects and arrays, by address
    schemas,    \* the `schemas` argument of the constructor: names and objects, in order
    outs,       \* every toOasSchema / toJsonschema call made so far and its outcome
    \* ---- the x-validator attribute
    xv,         \* one evaluation of the attribute: the keyword's value and the result
    \* ---- one endpoint under declaration
    draft,      \* the endpoint's declarations, its composite schema and its fragment
    \* ---- keyword lowering of one schema
    lw,         \* the schema drawn and what toOasSchema made of it
    \* ---- concurrent invocations
    calls,      \* the in-flight calls by identity, and what they share
    \* ---- the middleware form of the pipeline
    mw          \* the stages run for one request, the calls of next each made

buildVars == <<eps, endpoints, docPaths, lastCall>>
convVars == <<cv>>
callVars == <<ep, call>>
compVars == <<heap, schemas, outs>>
moreVars == <<xv, draft, lw, calls, mw>>
vars == <<eps, endpoints, docPaths, lastCall, cv, ep, call, heap, schemas, outs, xv, draft, lw, calls, mw>>

(***************************************************************************)
(* Strings                                                                 *)
(***************************************************************************)

\* String.prototype.toLowerCase on one character.
LowerChar(c) ==
    CASE c = "T" -> "t" [] c = "R" -> "r" [] c = "U" -> "u" [] c = "E" -> "e"
      [] c = "F" -> "f" [] c = "A" -> "a" [] c = "L" -> "l" [] c = "S" -> "s"
      [] c = "G" -> "g" [] c = "P" -> "p"
      [] OTHER -> c

\* String.prototype.toLowerCase.
toLowerCase(s) == [i \in 1..Len(s) |-> LowerChar(s[i])]

(***************************************************************************)
(* Specification container and endpoint descriptor                         *)
(***************************************************************************)

\* The most endpoint objects one specification constructs.
MaxEndpoints == 2

OperationIds == { <<"a">>, <<"b">>, <<"a", "_", "v", "1">> }
Methods == { <<"G", "E", "T">>, <<"p", "u", "t">> }
Paths == { <<"/", "x">> }
\* The version numbers passed, the documented type being int.
Versions == {-1, 0, 1}

\* Template-literal conversion of a version number, `${v}`.
NumStr(v) ==
    CASE v = 1 -> <<"1">> [] v = 2 -> <<"2">> [] v = 3 -> <<"3">>
      [] v = 0 -> <<"0">> [] v = -1 -> <<"-", "1">>

\* The fields `new Endpoint(spec, operationId, method, path, ...)` sets.
EndpointFields(operationId, method, path) ==
    [ operationId |-> operationId,        \* this.doc.operationId
      path |-> path,
      method |-> toLowerCase(method),
      endpointVersion |-> 0,
      func |-> "notDefined" ]

\* The identity of the next endpoint object.
NewId == Cardinality(DOMAIN eps) + 1

\* A constructor with the duplicate check dropped: the registration is overwritten.
newEndpoint_overwrite(operationId, method, path) ==
    /\ Cardinality(DOMAIN eps) < MaxEndpoints
    /\ eps' = [i \in DOMAIN eps \cup {NewId} |->
                 IF i = NewId THEN EndpointFields(operationId, method, path) ELSE eps[i]]
    /\ endpoints' = [k \in DOMAIN endpoints \cup {operationId} |->
                       IF k = operationId THEN NewId ELSE endpoints[k]]
    /\ lastCall' = [op |-> "newEndpoint", operationId |-> operationId, threw |-> FALSE]
    /\ UNCHANGED docPaths

\* OpenAPI.newEndpoint: `new Endpoint(...)`; the constructor throws on a
\* registered operationId and registers the object otherwise.
newEndpoint(operationId, method, path) ==
    IF operationId \in DOMAIN endpoints
    THEN /\ lastCall' = [op |-> "newEndpoint", operationId |-> operationId, threw |-> TRUE]
         /\ UNCHANGED <<eps, endpoints, docPaths>>
    ELSE /\ Cardinality(DOMAIN eps) < MaxEndpoints
         /\ eps' = [i \in DOMAIN eps \cup {NewId} |->
                      IF i = NewId THEN EndpointFields(operationId, method, path) ELSE eps[i]]
         /\ endpoints' = [k \in DOMAIN endpoints \cup {operationId} |->
                            IF k = operationId THEN NewId ELSE endpoints[k]]
         /\ lastCall' = [op |-> "newEndpoint", operationId |-> operationId, threw |-> FALSE]
         /\ UNCHANGED docPaths

\* A version that can be set again and again.
version_repeatable(e, v) ==
    /\ eps' = IF v <= 0
              THEN eps
              ELSE [eps EXCEPT ![e].endpointVersion = v,
                               ![e].operationId = @ \o <<"_", "v">> \o NumStr(v),
                               ![e].path = <<"/", "v">> \o NumStr(v) \o @]
    /\ lastCall' = [op |-> "version", operationId |-> << >>, threw |-> FALSE]
    /\ UNCHANGED <<endpoints, docPaths>>

\* Endpoint.version
version(e, v) ==
    /\ eps' = IF v <= 0 \/ eps[e].endpointVersion # 0
              THEN eps
              ELSE [eps EXCEPT ![e].endpointVersion = v,
                               ![e].operationId = @ \o <<"_", "v">> \o NumStr(v),
                               ![e].path = <<"/", "v">> \o NumStr(v) \o @]
    /\ lastCall' = [op |-> "version", operationId |-> << >>, threw |-> FALSE]
    /\ UNCHANGED <<endpoints, docPaths>>

\* Endpoint.define: the registration of this.doc in spec.doc.paths and the handler.
define(e) ==
    LET path == eps[e].path
        pathItem == IF path \in DOMAIN docPaths THEN docPaths[path] ELSE << >>
        item == [m \in DOMAIN pathItem \cup {eps[e].method} |->
                   IF m = eps[e].method THEN e ELSE pathItem[m]]
    IN  /\ docPaths' = [p \in DOMAIN docPaths \cup {path} |->
                          IF p = path THEN item ELSE docPaths[p]]
        /\ eps' = [eps EXCEPT ![e].func = "user"]
        /\ lastCall' = [op |-> "define", operationId |-> << >>, threw |-> FALSE]
        /\ UNCHANGED endpoints

(***************************************************************************)
(* convertParamType                                                        *)
(***************************************************************************)

\* The longest raw parameter string drawn from ItemChars.
MaxItemLen == 3

\* Characters of the raw parameter strings that are enumerated exhaustively:
\* digits, white space, a sign and a letter.
ItemChars == {"0", "1", "2", " ", "-", "a"}
Digits == {"0", "1", "2", "3", "4", "5", "6", "7", "8", "9"}

DigitVal(c) ==
    CASE c = "0" -> 0 [] c = "1" -> 1 [] c = "2" -> 2 [] c = "3" -> 3 [] c = "4" -> 4
      [] c = "5" -> 5 [] c = "6" -> 6 [] c = "7" -> 7 [] c = "8" -> 8 [] c = "9" -> 9

RECURSIVE TrimLeft(_)
TrimLeft(s) == IF s # << >> /\ Head(s) = " " THEN TrimLeft(Tail(s)) ELSE s

RECURSIVE TrimRight(_)
TrimRight(s) ==
    IF s # << >> /\ s[Len(s)] = " " THEN TrimRight(SubSeq(s, 1, Len(s) - 1)) ELSE s

RECURSIVE DecimalValue(_)
DecimalValue(s) ==
    IF s = << >> THEN 0
    ELSE 10 * DecimalValue(SubSeq(s, 1, Len(s) - 1)) + DigitVal(s[Len(s)])

NaN == [nan |-> TRUE, n |-> 0]

\* The numeric coercion `item * 1` of a string (ECMAScript StringToNumber), for
\* strings without ".", exponents, radix prefixes or "Infinity": white space
\* is trimmed, the empty string is 0, an optional sign and decimal digits give
\* their value, and everything else is NaN.
StringToNumber(s) ==
    LET t == TrimRight(TrimLeft(s))
        signed == t # << >> /\ Head(t) \in {"-", "+"}
        digits == IF signed THEN Tail(t) ELSE t
    IN  IF t = << >> THEN [nan |-> FALSE, n |-> 0]
        ELSE IF digits # << >> /\ \A i \in 1..Len(digits) : digits[i] \in Digits
        THEN [nan |-> FALSE,
              n |-> IF signed /\ Head(t) = "-" THEN 0 - DecimalValue(digits)
                    ELSE DecimalValue(digits)]
        ELSE NaN

StrVal(s) == [kind |-> "string", s |-> s, n |-> 0, b |-> FALSE]
NumVal(n) == [kind |-> "number", s |-> << >>, n |-> n, b |-> FALSE]
BoolVal(b) == [kind |-> "bool", s |-> << >>, n |-> 0, b |-> b]
UndefVal == [kind |-> "undefined", s |-> << >>, n |-> 0, b |-> FALSE]

Returns(v) == [threw |-> FALSE, value |-> v]
\* `throw {param, item}`
ThrowsParamItem(param, item) == [threw |-> TRUE, value |-> item]

STrue == <<"t", "r", "u", "e">>
SFalse == <<"f", "a", "l", "s", "e">>

\* `!item` for a string or undefined.
Falsy(item) == item.kind = "undefined" \/ (item.kind = "string" /\ item.s = << >>)

\* A conversion whose boolean comparison forgets toLowerCase.
convertParamType_caseSensitive(param, item) ==
    IF Falsy(item) THEN Returns(UndefVal)
    ELSE CASE param.type = "number" ->
                LET n == StringToNumber(item.s)
                IN  IF n.nan THEN ThrowsParamItem(param, item) ELSE Returns(NumVal(n.n))
           [] param.type = "bool" ->
                IF item.s # STrue /\ item.s # SFalse
                THEN ThrowsParamItem(param, item)
                ELSE Returns(BoolVal(item.s = STrue))
           [] param.type = "string" -> Returns(item)
           [] OTHER -> ThrowsParamItem(param, item)

\* utils.convertParamType
convertParamType(param, item) ==
    IF Falsy(item) THEN Returns(UndefVal)
    ELSE CASE param.type = "number" ->
                LET n == StringToNumber(item.s)
                IN  IF n.nan THEN ThrowsParamItem(param, item) ELSE Returns(NumVal(n.n))
           [] param.type = "bool" ->
                LET b == toLowerCase(item.s)
                IN  IF b # STrue /\ b # SFalse
                    THEN ThrowsParamItem(param, item)
                    ELSE Returns(BoolVal(b = STrue))
           [] param.type = "string" -> Returns(item)
           [] OTHER -> ThrowsParamItem(param, item)

\* The primitive types Endpoint.parameter accepts.
ParamTypes == {"string", "number", "bool"}

SeqsUpTo(S, n) == UNION { [1..k -> S] : k \in 0..n }

\* Every spelling of "true" and of "false" in upper and lower case.
BoolSpellings ==
    { <<a, b, c, d>> : a \in {"t", "T"}, b \in {"r", "R"}, c \in {"u", "U"}, d \in {"e", "E"} }
    \cup { <<a, b, c, d, e>> : a \in {"f", "F"}, b \in {"a", "A"}, c \in {"l", "L"},
                               d \in {"s", "S"}, e \in {"e", "E"} }

NearMisses ==
    { <<"t", "r", "u">>, <<" ", "t", "r", "u", "e">>, <<"t", "r", "u", "e", " ">>,
      <<"m", "a", "y", "b", "e">>, <<"a", "b", "c">>, <<"y", "e", "s">> }

RawStrings == SeqsUpTo(ItemChars, MaxItemLen) \cup BoolSpellings \cup NearMisses

\* What a transport hands over for a parameter: a string, or nothing.
RawItems == { StrVal(s) : s \in RawStrings } \cup { UndefVal }

ConvInit == cv = [done |-> FALSE, type |-> "string", item |-> UndefVal, out |-> Returns(UndefVal)]

\* One call of convertParamType on the drawn input.
Convert ==
    /\ ~cv.done
    /\ cv' = [cv EXCEPT !.done = TRUE,
                        !.out = convertParamType([type |-> cv.type], cv.item)]

(***************************************************************************)
(* The per-call pipeline: Endpoint.call and Endpoint.parseRequest          *)
(***************************************************************************)

\* The most sub-errors one validator result carries.
MaxSubErrors == 2

\* ---- errors
NoInstance == [loc |-> "none", name |-> "none", value |-> UndefVal]
NoErr == [name |-> "none", in |-> "none", instance |-> NoInstance, errors |-> << >>]
\* new JSONValidationError(endpoint, loc, instance, errors)
JSONValidationError(loc, instance, errors) ==
    [name |-> "JSONValidationError", in |-> loc, instance |-> instance, errors |-> errors]
\* Any error that is not a JSONValidationError; `what` tells who threw it.
OtherError(what) == [name |-> "Error", in |-> what, instance |-> NoInstance, errors |-> << >>]

Message(text) == [text |-> text, loc |-> "none", name |-> "none", type |-> "none"]
\* JSONValidationError.FromParameterType: instance {[in]: {[name]: value}} and the
\* message `instance.${in}.${name} could not be converted to type ${type}`.
FromParameterType(param, value) ==
    JSONValidationError("request",
        [loc |-> param.in, name |-> param.name, value |-> value],
        << [text |-> "could not be converted", loc |-> param.in,
            name |-> param.name, type |-> param.type] >>)
\* A conversion of the validator result that keeps its first error only.
FromValidatorResult_firstOnly(loc, result) ==
    JSONValidationError(loc, [loc |-> loc, name |-> "instance", value |-> UndefVal],
        [i \in 1..(IF Len(result.errors) > 0 THEN 1 ELSE 0) |-> Message(result.errors[i])])

\* JSONValidationError.FromValidatorResult: result.instance and every
\* result.errors[i].toString().
FromValidatorResult(loc, result) ==
    JSONValidationError(loc, [loc |-> loc, name |-> "instance", value |-> UndefVal],
        [i \in 1..Len(result.errors) |-> Message(result.errors[i])])

\* ---- Response records
Body(kind, v, e) == [kind |-> kind, v |-> v, e |-> e]
ValueBody(v) == Body("value", v, NoErr)
UndefinedBody == Body("undefined", "", NoErr)
ErrorBody(e) == Body("error", "", e)
\* new Response(status, body, {headers, ignore})
Response(status, body, headers, ignore) ==
    [status |-> status, body |-> body, headers |-> headers, ignore |-> ignore]
NoHeaders == "{}"
NoResponse == Response(0, UndefinedBody, NoHeaders, FALSE)

\* ---- the environment of a call
\* What spec.validate does: a valid result, an invalid result with sub-errors,
\* or an exception (a throwing custom validator, an unknown schema reference).
SubErrorLists == { s \in SeqsUpTo({"e1", "e2"}, MaxSubErrors) : s # << >> }
ValidatorOutcomes ==
    { [kind |-> "valid", errors |-> << >>], [kind |-> "throws", errors |-> << >>] }
    \cup { [kind |-> "invalid", errors |-> s] : s \in SubErrorLists }

StatusCodes == {200, 201}
Bodies == { ValueBody("b1"), UndefinedBody }
HeaderSets == { NoHeaders, "h1" }
\* What the user handler does: returns a Response record, returns another
\* value, throws a JSONValidationError of its own, or throws another error.
HandlerOutcomes ==
    { [kind |-> "response", response |-> Response(st, b, h, ig), error |-> NoErr] :
        st \in StatusCodes, b \in Bodies, h \in HeaderSets, ig \in BOOLEAN }
    \cup { [kind |-> "value", response |-> Response(0, b, NoHeaders, FALSE), error |-> NoErr] :
             b \in Bodies }
    \cup { [kind |-> "throw", response |-> NoResponse, error |-> e] :
             e \in { JSONValidationError("handler", NoInstance, << >>), OtherError("handler") } }

NoOutcome == [kind |-> "none", response |-> NoResponse, error |-> NoErr]

\* ---- the endpoint under call
TypedDoc(name, loc, type, required) ==
    [name |-> name, in |-> loc, type |-> type, required |-> required]

\* A defined endpoint: a bool query parameter, a required number path
\* parameter, and response schemas for the status codes in `codes`.
DefinedEndpoint(codes) ==
    [ query |-> << TypedDoc("q", "query", "bool", FALSE) >>,
      params |-> << TypedDoc("id", "path", "number", TRUE) >>,
      headers |-> << >>,
      bodyJsonschema |-> FALSE,
      responseSchemas |-> codes ]

SchemaCodeSets == SUBSET {200, 400}

CallRawItems ==
    { UndefVal, StrVal(<<"1", "2">>), StrVal(<<"a", "b", "c">>), StrVal(<<"T", "R", "U", "E">>) }

\* The raw request values of the declared parameters.
Requests ==
    { [query |-> [n \in {"q"} |-> q], params |-> [n \in {"id"} |-> id], headers |-> << >>] :
        q \in CallRawItems, id \in CallRawItems }

\* ---- parseRequest
Raw(req, param) ==
    CASE param.in = "query" -> req.query[param.name]
      [] param.in = "path" -> req.params[param.name]
      [] param.in = "header" -> req.headers[param.name]

\* The declared parameters in the order the three forEach loops visit them.
ParamsInOrder(e) == e.query \o e.params \o e.headers

\* A parse that goes on after a failed conversion: the last parameter whose
\* conversion throws, or 0.
FirstThrow_last(e, req) ==
    LET ps == ParamsInOrder(e)
        bad == { i \in 1..Len(ps) : convertParamType(ps[i], Raw(req, ps[i])).threw }
    IN  IF bad = {} THEN 0 ELSE CHOOSE i \in bad : \A j \in bad : i >= j

\* The first parameter whose conversion throws, or 0.
FirstThrow(e, req) ==
    LET ps == ParamsInOrder(e)
        bad == { i \in 1..Len(ps) : convertParamType(ps[i], Raw(req, ps[i])).threw }
    IN  IF bad = {} THEN 0 ELSE CHOOSE i \in bad : \A j \in bad : i <= j

\* data.query / data.params / data.headers after the conversions before `upto`.
Converted(e, req, loc, upto) ==
    LET ps == ParamsInOrder(e)
        idx == { i \in 1..upto : ps[i].in = loc }
    IN  [ n \in { ps[i].name : i \in idx } |->
            LET last == CHOOSE i \in idx : ps[i].name = n /\ \A j \in idx : ps[j].name = n => j <= i
            IN  convertParamType(ps[last], Raw(req, ps[last])).value ]

\* new utils.Data(req, res, endpoint)
NewData == [query |-> << >>, params |-> << >>, headers |-> << >>, body |-> "undefined"]

DataAfter(e, req, upto) ==
    [ query |-> Converted(e, req, "query", upto),
      params |-> Converted(e, req, "path", upto),
      headers |-> Converted(e, req, "header", upto),
      body |-> "undefined" ]

\* ---- the invocation
Resolved == [state |-> "resolved", error |-> NoErr, errors |-> << >>]
Rejected(e) == [state |-> "rejected", error |-> e, errors |-> << >>]
\* A validator result that is awaited.
Result(vr) == [state |-> vr.kind, error |-> NoErr, errors |-> vr.errors]

NewCall(req) ==
    [ pc |-> "start",
      req |-> req,
      data |-> NewData,
      awaited |-> Resolved,        \* the promise the call is suspended on
      response |-> NoResponse,
      err |-> NoErr,               \* `let err`
      writes |-> << >>,            \* what was handed to the transport response
      logged |-> 0,                \* console.error calls
      handlerCalls |-> 0,
      handlerOutcome |-> NoOutcome,
      raisedBy |-> "none",         \* what made the call's own promise reject
      validations |-> << >>,       \* the spec.validate calls, in order
      reports |-> << >> ]          \* the responseAndErrorHandler calls

\* The catch block of Endpoint.call.
Catch(c, error) ==
    IF error.name = "JSONValidationError"
    THEN [c EXCEPT !.response = Response(400, ErrorBody(error), NoHeaders, FALSE)]
    ELSE [c EXCEPT !.response = Response(500, ValueBody("internal server error"), NoHeaders, FALSE),
                   !.err = error]

\* A response mapping that rebuilds a returned Response record and loses its headers.
ResponseOf_dropsHeaders(ho) ==
    IF ho.kind = "response"
    THEN Response(ho.response.status, ho.response.body, NoHeaders, ho.response.ignore)
    ELSE Response(200, ho.response.body, NoHeaders, FALSE)

\* `output instanceof utils.Response ? output : new utils.Response(200, output)`
ResponseOf(ho) ==
    IF ho.kind = "response"
    THEN ho.response
    ELSE Response(200, ho.response.body, NoHeaders, FALSE)

TransportWrite(kind, status, headers, body, threw) ==
    [kind |-> kind, status |-> status, headers |-> headers, body |-> body, threw |-> threw]

\* A sender that writes the record whether or not it is flagged ignore.
SendResponse_ignoresIgnore(c, w1, w2) ==
    [c EXCEPT !.writes = Append(@, TransportWrite("record", c.response.status,
                                      c.response.headers, c.response.body, FALSE))]

\* `if(!response.ignore) { try { res.status().set().json() } catch { console.error;
\* res.status(500).json() } }`; w1 and w2 tell whether the transport throws on
\* the write of the record and on the fallback write.
SendResponse(c, w1, w2) ==
    LET first == TransportWrite("record", c.response.status, c.response.headers,
                                c.response.body, w1)
        fallback == TransportWrite("fallback", 500, NoHeaders,
                                   ValueBody("error while sending response"), w2)
    IN  IF c.response.ignore THEN c
        ELSE IF ~w1 THEN [c EXCEPT !.writes = Append(@, first)]
        ELSE [c EXCEPT !.writes = @ \o <<first, fallback>>,
                       !.logged = @ + 1,
                       !.pc = IF w2 THEN "rejected" ELSE @,
                       !.raisedBy = IF w2 THEN "fallbackWrite" ELSE @]

\* `this.spec.responseAndErrorHandler(data, response, err)`
Report(c) ==
    [c EXCEPT !.reports = Append(@, [data |-> c.data, response |-> c.response, err |-> c.err]),
              !.pc = "done"]

\* Lines 543-553 up to the await: the look-up of the response schema and the
\* call of spec.validate, or the report when there is nothing to validate.
AfterSend(e, c, vr) ==
    IF c.pc = "rejected" THEN c
    ELSE IF c.err = NoErr /\ c.response.status \in e.responseSchemas
    THEN IF vr.kind = "throws"
         THEN [c EXCEPT !.validations = Append(@, "response"),
                        !.pc = "rejected",
                        !.raisedBy = "responseValidator"]
         ELSE [c EXCEPT !.validations = Append(@, "response"),
                        !.awaited = Result(vr),
                        !.pc = "validatingResponse"]
    ELSE Report(c)

\* Endpoint.parseRequest, run to its await: the conversions, then spec.validate
\* on data.asInstance().
call_parseRequest(vr) ==
    /\ call.pc = "start"
    /\ LET k == FirstThrow(ep, call.req)
           ps == ParamsInOrder(ep)
       IN  call' =
             IF k # 0
             THEN [call EXCEPT !.data = DataAfter(ep, call.req, k - 1),
                               !.awaited = Rejected(FromParameterType(ps[k], Raw(call.req, ps[k]))),
                               !.pc = "parsed"]
             ELSE [call EXCEPT !.data = DataAfter(ep, call.req, Len(ps)),
                               !.validations = Append(@, "request"),
                               !.awaited =
                                  CASE vr.kind = "throws" -> Rejected(OtherError("validator"))
                                    [] vr.kind = "invalid" -> Rejected(FromValidatorResult("request", vr))
                                    [] OTHER -> Resolved,
                               !.pc = "parsed"]
    /\ UNCHANGED ep

\* Endpoint.call resumed after `await this.parseRequest(data)` resolved: the
\* handler is invoked.
call_invokeHandler(ho) ==
    /\ call.pc = "parsed"
    /\ call.awaited.state = "resolved"
    /\ call' = [call EXCEPT !.handlerCalls = @ + 1,
                            !.handlerOutcome = ho,
                            !.awaited = IF ho.kind = "throw" THEN Rejected(ho.error) ELSE Resolved,
                            !.pc = "handling"]
    /\ UNCHANGED ep

\* Endpoint.call resumed after `await this.parseRequest(data)` rejected: the
\* catch block, the write and the start of response validation.
call_parseFailed(w1, w2, vr) ==
    /\ call.pc = "parsed"
    /\ call.awaited.state = "rejected"
    /\ call' = AfterSend(ep, SendResponse(Catch(call, call.awaited.error), w1, w2), vr)
    /\ UNCHANGED ep

\* Endpoint.call resumed after `await this.func(data)`: the response record,
\* the write and the start of response validation.
call_afterHandler(w1, w2, vr) ==
    /\ call.pc = "handling"
    /\ call' = AfterSend(ep,
                 SendResponse(
                    IF call.awaited.state = "rejected"
                    THEN Catch(call, call.awaited.error)
                    ELSE [call EXCEPT !.response = ResponseOf(call.handlerOutcome)],
                    w1, w2),
                 vr)
    /\ UNCHANGED ep

\* A response validation that enforces: an invalid body is answered with a 500.
call_afterResponseValidation_enforcing ==
    /\ call.pc = "validatingResponse"
    /\ call' = IF call.awaited.state = "invalid"
               THEN Report(SendResponse(
                      [call EXCEPT !.err = FromValidatorResult("response", call.awaited),
                                   !.response = Response(500, ValueBody("internal server error"),
                                                         NoHeaders, FALSE)],
                      FALSE, FALSE))
               ELSE Report(call)
    /\ UNCHANGED ep

\* Endpoint.call resumed after `await this.spec.validate(response.body, ...)`.
call_afterResponseValidation ==
    /\ call.pc = "validatingResponse"
    /\ call' = IF call.awaited.state = "invalid"
               THEN Report([call EXCEPT !.err = FromValidatorResult("response", call.awaited)])
               ELSE Report(call)
    /\ UNCHANGED ep

(***************************************************************************)
(* Schema compilation: schemaRefReplace, forAllRecursiveKeys, toOasSchema  *)
(* and toJsonschema                                                        *)
(***************************************************************************)

\* `const x = v` followed by code that uses x: v is evaluated once.
Only(S) == CHOOSE x \in S : TRUE
Once(v, Use(_)) == Only({ Use(x) : x \in {v} })

\* ---- values and heap cells
\* A JavaScript value: a string (its characters), a reference to an object or
\* array (its address), a function (its identity), true, null or undefined.
VStr(s) == [t |-> "str", s |-> s, a |-> 0]
VRef(a) == [t |-> "ref", s |-> << >>, a |-> a]
VFn(f) == [t |-> "fn", s |-> << >>, a |-> f]
VTrue == [t |-> "true", s |-> << >>, a |-> 0]
VNull == [t |-> "null", s |-> << >>, a |-> 0]
VUndef == [t |-> "undef", s |-> << >>, a |-> 0]

\* An object: its own property names in insertion order and their values.
Obj(keys, vals) == [arr |-> FALSE, keys |-> keys, vals |-> vals]
\* An array.
Arr(vals) == [arr |-> TRUE, keys |-> << >>, vals |-> vals]

IndexOfKey(o, k) ==
    IF \E i \in 1..Len(o.keys) : o.keys[i] = k
    THEN CHOOSE i \in 1..Len(o.keys) : o.keys[i] = k
    ELSE 0
\* o[k]
GetKey(o, k) == IF IndexOfKey(o, k) = 0 THEN VUndef ELSE o.vals[IndexOfKey(o, k)]
\* o[k] = v
SetKey(o, k, v) ==
    IF IndexOfKey(o, k) = 0
    THEN [o EXCEPT !.keys = Append(@, k), !.vals = Append(@, v)]
    ELSE [o EXCEPT !.vals[IndexOfKey(o, k)] = v]
\* delete o[k]
DeleteKey(o, k) ==
    LET i == IndexOfKey(o, k)
    IN  IF i = 0 THEN o
        ELSE [o EXCEPT !.keys = SubSeq(@, 1, i - 1) \o SubSeq(@, i + 1, Len(@)),
                       !.vals = SubSeq(@, 1, i - 1) \o SubSeq(@, i + 1, Len(@))]

StartsWith(s, p) == Len(s) >= Len(p) /\ SubSeq(s, 1, Len(p)) = p
EndsWith(s, p) == Len(s) >= Len(p) /\ SubSeq(s, Len(s) - Len(p) + 1, Len(s)) = p

\* ---- the schema objects an application hands over
SString == <<"s", "t", "r", "i", "n", "g">>
SObject == <<"o", "b", "j", "e", "c", "t">>
SArray == <<"a", "r", "r", "a", "y">>

\* 1 Pet, 6 Owner and 11 Tag are meant to be registered; 10 is a structural
\* clone of 11; 8, 9 and 12 are schemas an endpoint declares; 15 and 17 are
\* two schemas that refer to each other.
SourceHeap ==
    << Obj(<<"type", "properties", "patternProperties", "dependencies", "x-validator">>,
           <<VStr(SObject), VRef(2), VRef(3), VRef(4), VFn(1)>>),
       Obj(<<"name">>, <<VRef(5)>>),
       Obj(<<"^x">>, <<VRef(5)>>),
       Obj(<<"name">>, <<VRef(14)>>),
       Obj(<<"type", "const">>, <<VStr(SString), VStr(<<"c">>)>>),
       Obj(<<"description", "x-nullable">>, <<VStr(<<"d">>), VRef(7)>>),
       Obj(<<"$ref">>, <<VRef(1)>>),
       Obj(<<"$ref">>, <<VStr(<<"{", "P", "}">>)>>),
       Obj(<<"$ref">>, <<VRef(10)>>),
       Obj(<<"type">>, <<VStr(SString)>>),
       Obj(<<"type">>, <<VStr(SString)>>),
       Obj(<<"type", "items", "x-validator">>, <<VStr(SArray), VRef(9), VRef(13)>>),
       Arr(<<VFn(2), VStr(<<"n", "a", "m", "e", "d">>)>>),
       Arr(<<VStr(<<"i", "d">>)>>),
       Obj(<<"items">>, <<VRef(16)>>),
       Obj(<<"$ref">>, <<VRef(17)>>),
       Obj(<<"items">>, <<VRef(18)>>),
       Obj(<<"$ref">>, <<VRef(15)>>) >>

Named(n, a) == [name |-> n, obj |-> VRef(a)]

\* The `schemas` arguments: the plain one; one that registers the clone
\* instead of Tag; one that registers Pet under two names; one whose Owner
\* refers to an object that is not registered; one that declares Owner before
\* the Pet it refers to; one of two schemas that refer to each other.
Registries ==
    { << Named(<<"P">>, 1), Named(<<"O">>, 6), Named(<<"T">>, 11) >>,
      << Named(<<"O">>, 6), Named(<<"P">>, 1) >>,
      << Named(<<"A">>, 15), Named(<<"B">>, 17), Named(<<"P">>, 1) >>,
      << Named(<<"P">>, 1), Named(<<"T">>, 10) >>,
      << Named(<<"P">>, 1), Named(<<"Q">>, 1), Named(<<"O">>, 6) >>,
      << Named(<<"O">>, 6), Named(<<"T">>, 11) >> }

\* The schemas that are compiled after construction.
CompileRoots == {1, 6, 7, 8, 9, 11, 12, 16}

\* ---- this._schemaObjectsToNames
\* new Map(Object.getOwnPropertyNames(schemas).map(n => [schemas[n], `{${n}}`]))
schemaObjectsToNames(reg) ==
    [i \in 1..Len(reg) |-> [key |-> reg[i].obj, value |-> <<"{">> \o reg[i].name \o <<"}">>]]

\* A key comparison that takes structurally equal objects for the same key.
SameValueZero_structural(x, y) ==
    /\ x.t = y.t
    /\ x.s = y.s
    /\ IF x.t = "ref" THEN SourceHeap[x.a] = SourceHeap[y.a] ELSE x.a = y.a

\* The key comparison of Map: primitives by value, objects by identity.
SameValueZero(x, y) == x = y

\* A map that finds no key.
MapHas_never(m, x) == FALSE

\* Map.prototype.has
MapHas(m, x) == \E i \in 1..Len(m) : SameValueZero(m[i].key, x)
\* Map.prototype.get, for a key the map has: a later entry of the constructor's
\* list overwrites the value of an earlier one with the same key.
MapGet(m, x) ==
    LET hits == { i \in 1..Len(m) : SameValueZero(m[i].key, x) }
    IN  m[CHOOSE i \in hits : \A j \in hits : j <= i].value

\* ---- schemaRefReplace
OasPrefix ==
    <<"#", "/", "c", "o", "m", "p", "o", "n", "e", "n", "t", "s", "/",
      "s", "c", "h", "e", "m", "a", "s", "/">>
FnPrefix ==
    <<"x", "-", "o", "a", "s", "-", "f", "u", "n", "c", "t", "i", "o", "n", ":", " ">>

\* A replaceFunc that points into a table the document does not have.
replaceFunc_definitions(d, n) ==
    IF d = "oas" THEN <<"#", "/", "d", "e", "f", "i", "n", "i", "t", "i", "o", "n", "s", "/">> \o n
    ELSE <<"/">> \o n

\* The replaceFunc arguments of toOasSchema and of toJsonschema.
replaceFunc(d, n) == IF d = "oas" THEN OasPrefix \o n ELSE <<"/">> \o n

\* The replacer of JSON.stringify.  `st` is the state of the serialisation:
\* the heap, the map, funcs, whether it threw, and the references it rewrote.
replacer(st, d, key, value) ==
    IF key = "$ref" /\ value.t \in {"ref", "null"}
    THEN IF ~MapHas(st.map, value)
         THEN [st |-> [st EXCEPT !.threw = TRUE, !.missing = value], v |-> VUndef]
         ELSE LET v == MapGet(st.map, value)
                  r == replaceFunc(d, SubSeq(v, 2, Len(v) - 1))
              IN  [st |-> [st EXCEPT !.log = Append(@, [obj |-> value, ptr |-> r])],
                   v |-> VStr(r)]
    ELSE IF /\ key = "$ref" /\ value.t = "str"
            /\ StartsWith(value.s, <<"{">>) /\ EndsWith(value.s, <<"}">>)
    THEN [st |-> st, v |-> VStr(replaceFunc(d, SubSeq(value.s, 2, Len(value.s) - 1)))]
    ELSE IF value.t = "fn"
    THEN [st |-> [st EXCEPT !.funcs = Append(@, value)],
          v |-> VStr(FnPrefix \o NumStr(Len(st.funcs)))]
    ELSE [st |-> st, v |-> value]

RECURSIVE Serialize(_, _, _, _)
RECURSIVE SerializeMembers(_, _, _, _, _, _)

\* JSON.stringify followed by JSON.parse on one property: the replacer is
\* applied, then an object or array is written out member by member and read
\* back as a new object or array.
Serialize(st, d, key, value) ==
    Once(replacer(st, d, key, value), LAMBDA r :
        IF r.st.threw \/ r.v.t # "ref" THEN r
        ELSE Once(SerializeMembers(r.st, d, r.st.h[r.v.a], 1, << >>, << >>), LAMBDA m :
                IF m.st.threw THEN [st |-> m.st, v |-> VUndef]
                ELSE [st |-> [m.st EXCEPT !.h = Append(@, [arr |-> r.st.h[r.v.a].arr,
                                                            keys |-> m.keys, vals |-> m.vals])],
                      v |-> VRef(Len(m.st.h) + 1)]))

\* A property whose value is undefined is left out of an object and written
\* as null in an array.
SerializeMembers(st, d, o, i, keys, vals) ==
    IF st.threw \/ i > Len(o.vals) THEN [st |-> st, keys |-> keys, vals |-> vals]
    ELSE Once(Serialize(st, d, IF o.arr THEN "" ELSE o.keys[i], o.vals[i]), LAMBDA c :
             IF o.arr
             THEN SerializeMembers(c.st, d, o, i + 1, keys,
                                   Append(vals, IF c.v.t = "undef" THEN VNull ELSE c.v))
             ELSE IF c.v.t = "undef"
             THEN SerializeMembers(c.st, d, o, i + 1, keys, vals)
             ELSE SerializeMembers(c.st, d, o, i + 1, Append(keys, o.keys[i]), Append(vals, c.v)))

\* parseInt of the text after the prefix: white space, an optional sign, the
\* leading decimal digits.
RECURSIVE LeadingDigits(_)
LeadingDigits(s) ==
    IF s # << >> /\ Head(s) \in Digits THEN <<Head(s)>> \o LeadingDigits(Tail(s)) ELSE << >>

parseInt(s) ==
    LET t == TrimLeft(s)
        signed == t # << >> /\ Head(t) \in {"-", "+"}
        digits == LeadingDigits(IF signed THEN Tail(t) ELSE t)
    IN  IF digits = << >> THEN NaN
        ELSE [nan |-> FALSE,
              n |-> IF signed /\ Head(t) = "-" THEN 0 - DecimalValue(digits)
                    ELSE DecimalValue(digits)]

\* The reviver of JSON.parse: funcs[parseInt(value.substring(16))].
reviver(funcs, value) ==
    IF value.t = "str" /\ StartsWith(value.s, FnPrefix)
    THEN LET id == parseInt(SubSeq(value.s, Len(FnPrefix) + 1, Len(value.s)))
         IN  IF ~id.nan /\ id.n >= 0 /\ id.n < Len(funcs) THEN funcs[id.n + 1] ELSE VUndef
    ELSE value

RECURSIVE Ascending(_, _)
\* The members of S up to n, in ascending order.
Ascending(n, S) ==
    IF n = 0 THEN << >>
    ELSE IF n \in S THEN Append(Ascending(n - 1, S), n) ELSE Ascending(n - 1, S)

\* JSON.parse applying the reviver to the members of one parsed object or
\* array: a member revived to undefined is deleted from an object.
Revived(funcs, o) ==
    IF o.arr THEN Arr([i \in 1..Len(o.vals) |-> reviver(funcs, o.vals[i])])
    ELSE LET keep == Ascending(Len(o.vals),
                               { i \in 1..Len(o.vals) : reviver(funcs, o.vals[i]).t # "undef" })
         IN  Obj([j \in 1..Len(keep) |-> o.keys[keep[j]]],
                 [j \in 1..Len(keep) |-> reviver(funcs, o.vals[keep[j]])])

\* A reference replacement that hands back the schema itself.
schemaRefReplace_inPlace(h, reg, schema, d) ==
    [h |-> h, v |-> schema, threw |-> FALSE, missing |-> VUndef, log |-> << >>]

\* schemaRefReplace.call(spec, schema, replaceFunc):
\* JSON.parse(JSON.stringify(schema, replacer), reviver).
schemaRefReplace(h, reg, schema, d) ==
    Once([h |-> h, map |-> schemaObjectsToNames(reg), funcs |-> << >>,
           threw |-> FALSE, missing |-> VUndef, log |-> << >>], LAMBDA st0 :
      Once(Serialize(st0, d, "", schema), LAMBDA r :
        IF r.st.threw
        THEN [h |-> h, v |-> VUndef, threw |-> TRUE, missing |-> r.st.missing, log |-> r.st.log]
        ELSE [h |-> [a \in 1..Len(r.st.h) |->
                        IF a > Len(h) THEN Revived(r.st.funcs, r.st.h[a]) ELSE r.st.h[a]],
              v |-> reviver(r.st.funcs, r.v),
              threw |-> FALSE, missing |-> VUndef, log |-> r.st.log]))

\* ---- the keyword lowerings
SNullable == <<"(", "n", "u", "l", "l", "a", "b", "l", "e", ")">>
SNull == <<"N", "u", "l", "l">>
SNullType == <<"n", "u", "l", "l">>

\* `v ? ... : ...`
Truthy(v) == v.t \in {"ref", "fn", "true"} \/ (v.t = "str" /\ v.s # << >>)
\* `v + ''`: a string is itself; the text of any other value is one token.
StringOf(v) ==
    CASE v.t = "str" -> v.s
      [] v.t = "ref" -> <<"[object Object]">>
      [] v.t = "fn" -> <<"function">>
      [] v.t = "true" -> <<"true">>
      [] v.t = "null" -> <<"null">>
      [] OTHER -> <<"undefined">>

RECURSIVE AssignFrom(_, _, _)
\* The target after the properties of src from the i-th on are assigned to it.
AssignFrom(target, src, i) ==
    IF i > Len(src.keys) THEN target
    ELSE Once(SetKey(target, src.keys[i], src.vals[i]), LAMBDA t : AssignFrom(t, src, i + 1))

\* Object.assign(target, source) for a source that is an object.
ObjectAssign(h, target, source) ==
    IF source.t # "ref" \/ h[source.a].arr THEN h
    ELSE [h EXCEPT ![target] = AssignFrom(h[target], h[source.a], 1)]

\* The callback of toOasSchema on key k of the object at address a: the heap
\* after it, and whether the walk enters the key's value.
OasKey(h, a, k) ==
    LET o == h[a]
        n == Len(h)
    IN  CASE k = "dependencies" ->
               [h |-> [h EXCEPT ![a] = DeleteKey(o, k)], enter |-> FALSE]
          [] k = "patternProperties" ->
               LET props == GetKey(o, "properties")
                   h1 == IF props.t = "ref" THEN h ELSE Append(h, Obj(<< >>, << >>))
                   t == IF props.t = "ref" THEN props.a ELSE n + 1
               IN  Once(ObjectAssign(h1, t, GetKey(o, k)), LAMBDA h2 :
                     [h |-> [h2 EXCEPT ![a] = DeleteKey(SetKey(h2[a], "properties", VRef(t)), k)],
                      enter |-> TRUE])
          [] k = "const" ->
               [h |-> [Append(h, Arr(<<GetKey(o, k)>>)) EXCEPT
                          ![a] = DeleteKey(SetKey(o, "enum", VRef(n + 1)), k)],
                enter |-> TRUE]
          [] k = "x-nullable" ->
               LET desc == GetKey(o, "description")
                   text == (IF Truthy(desc)
                            THEN StringOf(desc) \o <<" ", "-", " ">> ELSE << >>) \o SNullable
                   h1 == h \o << Obj(<<"nullable">>, <<VTrue>>),
                                 Arr(<<GetKey(o, k), VRef(n + 1)>>) >>
               IN  [h |-> [h1 EXCEPT ![a] = DeleteKey(SetKey(SetKey(o, "description", VStr(text)),
                                                             "allOf", VRef(n + 2)), k)],
                    enter |-> TRUE]
          [] k = "x-validator" ->
               [h |-> [h EXCEPT ![a] = DeleteKey(o, k)], enter |-> TRUE]
          [] OTHER -> [h |-> h, enter |-> TRUE]

\* The callback of toJsonschema.
JsonschemaKey(h, a, k) ==
    LET o == h[a]
        n == Len(h)
    IN  IF k = "x-nullable"
        THEN LET h1 == h \o << Obj(<<"title", "type">>, <<VStr(SNull), VStr(SNullType)>>),
                               Arr(<<GetKey(o, k), VRef(n + 1)>>) >>
             IN  [h |-> [h1 EXCEPT ![a] = DeleteKey(SetKey(o, "oneOf", VRef(n + 2)), k)],
                  enter |-> TRUE]
        ELSE [h |-> h, enter |-> TRUE]

RECURSIVE forAllRecursiveKeys(_, _, _)
RECURSIVE ForEachKey(_, _, _, _, _)
RECURSIVE ForEachItem(_, _, _, _)

\* forAllRecursiveKeys(o, func), func being the callback of dialect d.  `w` is
\* the heap and whether a TypeError was thrown (Object.getOwnPropertyNames of
\* null).
forAllRecursiveKeys(w, o, d) ==
    IF w.threw THEN w
    ELSE IF o.t = "ref" /\ w.h[o.a].arr THEN ForEachItem(w, o.a, 1, d)
    ELSE IF o.t = "ref" THEN ForEachKey(w, o.a, w.h[o.a].keys, 1, d)
    ELSE IF o.t = "null" THEN [w EXCEPT !.threw = TRUE]
    ELSE w

ForEachItem(w, a, i, d) ==
    IF w.threw \/ i > Len(w.h[a].vals) THEN w
    ELSE Once(forAllRecursiveKeys(w, w.h[a].vals[i], d), LAMBDA w1 :
             ForEachItem(w1, a, i + 1, d))

\* A walk that reads o[k] only after the callback has run.
ForEachKey_readsAfter(w, a, ks, i, d) ==
    IF w.threw \/ i > Len(ks) THEN w
    ELSE Once(IF d = "oas" THEN OasKey(w.h, a, ks[i]) ELSE JsonschemaKey(w.h, a, ks[i]), LAMBDA r :
           Once(GetKey(r.h[a], ks[i]), LAMBDA next :
             Once(IF r.enter THEN forAllRecursiveKeys([w EXCEPT !.h = r.h], next, d)
                   ELSE [w EXCEPT !.h = r.h], LAMBDA w1 :
               ForEachKey(w1, a, ks, i + 1, d))))

\* The forEach over the names Object.getOwnPropertyNames returned on entry:
\* `next` is read before the callback runs.
ForEachKey(w, a, ks, i, d) ==
    IF w.threw \/ i > Len(ks) THEN w
    ELSE Once(GetKey(w.h[a], ks[i]), LAMBDA next :
           Once(IF d = "oas" THEN OasKey(w.h, a, ks[i]) ELSE JsonschemaKey(w.h, a, ks[i]), LAMBDA r :
             Once(IF r.enter THEN forAllRecursiveKeys([w EXCEPT !.h = r.h], next, d)
                   ELSE [w EXCEPT !.h = r.h], LAMBDA w1 :
               ForEachKey(w1, a, ks, i + 1, d))))

\* The outcome of one compile call: what was compiled, into which dialect, by
\* whom, whether it threw, the compiled schema, the object whose reference
\* was missing, the references rewritten, and the heap afterwards.
Compiled(h, reg, schema, d, by) ==
    Once(schemaRefReplace(h, reg, schema, d), LAMBDA s :
      Once(forAllRecursiveKeys([h |-> s.h, threw |-> s.threw], s.v, d), LAMBDA w :
        IF s.threw \/ w.threw
        THEN [h |-> h,
              out |-> [schema |-> schema, dialect |-> d, by |-> by, threw |-> TRUE,
                       root |-> VUndef, missing |-> s.missing, log |-> s.log]]
        ELSE [h |-> w.h,
              out |-> [schema |-> schema, dialect |-> d, by |-> by, threw |-> FALSE,
                       root |-> s.v, missing |-> VUndef, log |-> s.log]]))

\* utils.toOasSchema(schema, spec)
toOasSchema(h, reg, schema, by) == Compiled(h, reg, schema, "oas", by)
\* utils.toJsonschema(schema, spec)
toJsonschema(h, reg, schema, by) == Compiled(h, reg, schema, "jsonschema", by)

\* The loop at the end of the constructor: every named schema is compiled
\* into both dialects, in order, until a compile throws.
RECURSIVE ConstructorLoop(_, _, _)
\* The loop from its i-th compile call on; the odd calls are toOasSchema.
ConstructorLoop(reg, i, acc) ==
    IF acc.threw \/ i > 2 * Len(reg) THEN acc
    ELSE Once(IF i % 2 = 1
               THEN toOasSchema(acc.h, reg, reg[(i + 1) \div 2].obj, "constructor")
               ELSE toJsonschema(acc.h, reg, reg[(i + 1) \div 2].obj, "constructor"), LAMBDA c :
           Once([h |-> c.h, outs |-> Append(acc.outs, c.out), threw |-> c.out.threw], LAMBDA next :
             ConstructorLoop(reg, i + 1, next)))

Constructed(reg) ==
    ConstructorLoop(reg, 1, [h |-> SourceHeap, outs |-> << >>, threw |-> FALSE])

\* The most compile calls endpoints make on one specification.
MaxCompiles == 2

ByEndpoints == { i \in 1..Len(outs) : outs[i].by = "endpoint" }
\* The constructor returned.
SpecExists == \A i \in 1..Len(outs) : outs[i].by = "constructor" => ~outs[i].threw

\* An endpoint declaring a parameter, a body or a response documents the
\* schema: utils.toOasSchema(schema, this.spec).
compile_toOasSchema(a) ==
    /\ SpecExists
    /\ Cardinality(ByEndpoints) < MaxCompiles
    /\ \E c \in {toOasSchema(heap, schemas, VRef(a), "endpoint")} :
          heap' = c.h /\ outs' = Append(outs, c.out)
    /\ UNCHANGED schemas

\* ... and prepares it for validation: utils.toJsonschema(schema, this.spec).
compile_toJsonschema(a) ==
    /\ SpecExists
    /\ Cardinality(ByEndpoints) < MaxCompiles
    /\ \E c \in {toJsonschema(heap, schemas, VRef(a), "endpoint")} :
          heap' = c.h /\ outs' = Append(outs, c.out)
    /\ UNCHANGED schemas

CompIdle == heap = << >> /\ schemas = << >> /\ outs = << >>

(***************************************************************************)
(* The x-validator attribute of the validation engine                      *)
(***************************************************************************)

\* The most entries of one x-validator list.
MaxEntries == 2

\* An entry of the keyword's value: a string, a function, or something else.
EName(n) == [t |-> "string", n |-> n]
EFn(f) == [t |-> "function", n |-> f]
ENull == [t |-> "object", n |-> "null"]
ENumber == [t |-> "number", n |-> "7"]
EUndefined == [t |-> "undefined", n |-> "undefined"]

\* What calling a function does: it returns undefined, returns a message, or
\* throws.  toString is Object.prototype.toString, which every object
\* literal inherits.
Returned(m) == [threw |-> FALSE, defined |-> TRUE, s |-> m]
ReturnedUndefined == [threw |-> FALSE, defined |-> FALSE, s |-> ""]
Threw == [threw |-> TRUE, defined |-> FALSE, s |-> ""]
Functions == {"passes", "fails1", "fails2", "throws", "returnsEmpty"}
Invoke(f) ==
    CASE f = "passes" -> ReturnedUndefined
      [] f = "fails1" -> Returned("m1")
      [] f = "fails2" -> Returned("m2")
      [] f = "throws" -> Threw
      [] f = "returnsEmpty" -> Returned("")
      [] f = "Object.prototype.toString" -> Returned("[object Object]")

\* spec.validatorFuncs as the application filled it: own properties only.
OwnValidatorFuncs ==
    [n \in {"ok", "bad", "other", "notAFunction"} |->
        CASE n = "ok" -> EFn("passes")
          [] n = "bad" -> EFn("fails1")
          [] n = "other" -> EFn("fails2")
          [] n = "notAFunction" -> ENumber]

\* this.validatorFuncs[v]: an own property, or else what the object literal
\* inherits from Object.prototype, or else undefined.
validatorFuncsAt(v) ==
    IF v \in DOMAIN OwnValidatorFuncs THEN OwnValidatorFuncs[v]
    ELSE IF v = "toString" THEN EFn("Object.prototype.toString")
    ELSE EUndefined

ValidatorNames == {"ok", "bad", "other", "notAFunction", "missing", "toString"}
Entries ==
    { EName(n) : n \in ValidatorNames } \cup { EFn(f) : f \in Functions }
    \cup { ENull, ENumber, EUndefined }

\* A message: the pieces of the template literal, or the string a function
\* returned.
StringsMessage(v) ==
    <<"x-validator strings (", v,
      ") must reference a defined customValidation function on the OpenAPI object">>
TypeMessage(t) ==
    <<"x-validator type (", t, ") must be either a function, a string, or an array of both">>

\* The body of the forEach callback for one entry: the exception it lets out
\* or the errors it adds to the result.
Entry(v) ==
    IF v.t = "string"
    THEN IF validatorFuncsAt(v.n).t = "function"
         THEN LET r == Invoke(validatorFuncsAt(v.n).n)
              IN  [threw |-> r.threw, errors |-> IF r.defined THEN << <<r.s>> >> ELSE << >>]
         ELSE [threw |-> FALSE, errors |-> << StringsMessage(v.n) >>]
    ELSE IF v.t = "function"
    THEN LET r == Invoke(v.n)
         IN  [threw |-> r.threw, errors |-> IF r.defined THEN << <<r.s>> >> ELSE << >>]
    ELSE IF v.t # "undefined"
    THEN [threw |-> FALSE, errors |-> << TypeMessage(v.t) >>]
    ELSE [threw |-> FALSE, errors |-> << >>]

\* A forEach that stops at the first entry that added an error.
RECURSIVE forEachEntry_shortCircuit(_, _, _)
forEachEntry_shortCircuit(list, i, r) ==
    IF i > Len(list) \/ r.threw \/ r.errors # << >> THEN r
    ELSE forEachEntry_shortCircuit(list, i + 1,
            [evaluated |-> Append(r.evaluated, list[i]),
             errors |-> r.errors \o Entry(list[i]).errors,
             threw |-> Entry(list[i]).threw])

\* xValidator.forEach(v => ...) from the i-th entry on: which entries were
\* evaluated, the errors of the result, and whether an exception came out.
RECURSIVE forEachEntry(_, _, _)
forEachEntry(list, i, r) ==
    IF i > Len(list) \/ r.threw THEN r
    ELSE forEachEntry(list, i + 1,
            [evaluated |-> Append(r.evaluated, list[i]),
             errors |-> r.errors \o Entry(list[i]).errors,
             threw |-> Entry(list[i]).threw])

\* The values of the keyword: a list of entries, or one bare entry.
KeywordValues ==
    { [isArray |-> TRUE, items |-> l] : l \in SeqsUpTo(Entries, MaxEntries) }
    \cup { [isArray |-> FALSE, items |-> <<v>>] : v \in Entries }

NoResult == [evaluated |-> << >>, errors |-> << >>, threw |-> FALSE]

\* this._validator.attributes['x-validator'](instance, schema, options, ctx):
\* a bare value is wrapped into a list, then every entry is visited.
xValidator ==
    /\ ~xv.done
    /\ xv' = [xv EXCEPT !.done = TRUE,
                        !.result = forEachEntry(xv.value.items, 1, NoResult)]

XvIdle == xv = [value |-> [isArray |-> TRUE, items |-> << >>], done |-> FALSE, result |-> NoResult]


(***************************************************************************)
(* One endpoint under declaration: parameter, requestBody, deprecate and   *)
(* define                                                                  *)
(***************************************************************************)

\* The most builder calls made on the endpoint, define aside.
MaxDeclarations == 2

\* What utils.toJsonschema and utils.toOasSchema return for a schema.
JsonschemaOf(schema) == <<"jsonschema", schema>>
OasOf(schema) == <<"oas", schema>>

\* The typedDoc object of a parameter declaration.
typedDoc(loc, name, required, schema, type) ==
    [ doc |-> [name |-> name, in |-> loc, required |-> required, schema |-> OasOf(schema)],
      type |-> type,
      jsonschema |-> JsonschemaOf(schema) ]

NoBody == [declared |-> FALSE, required |-> FALSE, schema |-> << >>]
NoDataSchema == [built |-> FALSE, required |-> << >>, properties |-> << >>]

\* The endpoint after its constructor: this.doc, the three buckets,
\* _bodyJsonschema, _dataSchema, func, and whether this.doc is in doc.paths.
NewDraft ==
    [ doc |-> [parameters |-> << >>, requestBody |-> NoBody, deprecated |-> FALSE,
               responses |-> << >>],
      responseSchemas |-> << >>,
      query |-> << >>,
      params |-> << >>,
      headers |-> << >>,
      bodyJsonschema |-> << >>,
      dataSchema |-> NoDataSchema,
      defined |-> FALSE,
      inPaths |-> FALSE,
      routed |-> 0,
      calls |-> 0,
      last |-> [op |-> "new", threw |-> FALSE] ]

\* The call counts against the bound and is remembered as the last one.
Called(d, op, threw) ==
    [d EXCEPT !.calls = @ + 1, !.last = [op |-> op, threw |-> threw]]

ParamLocations == {"query", "path", "header", "cookie"}
ParamNames == {"a", "b"}
ParamSchemas == {"s1", "s2"}
DeclaredTypes == {"string", "integer"}

\* Endpoint.parameter: the type is checked first; the documentation form is
\* pushed before the location is looked at.
draft_parameter(loc, name, required, schema, type) ==
    /\ draft.calls < MaxDeclarations
    /\ LET p == typedDoc(loc, name, required, schema, type)
           pushed == [draft EXCEPT !.doc.parameters = Append(@, p.doc)]
       IN  draft' =
             IF type \notin {"string", "number", "bool"} THEN Called(draft, "parameter", TRUE)
             ELSE CASE loc = "query" ->
                         Called([pushed EXCEPT !.query = Append(@, p)], "parameter", FALSE)
                    [] loc = "path" ->
                         Called([pushed EXCEPT !.params = Append(@, p)], "parameter", FALSE)
                    [] loc = "header" ->
                         Called([pushed EXCEPT !.headers = Append(@, p)], "parameter", FALSE)
                    [] OTHER -> Called(pushed, "parameter", TRUE)

\* Endpoint.requestBody
draft_requestBody(required, schema) ==
    /\ draft.calls < MaxDeclarations
    /\ draft' = Called([draft EXCEPT
                           !.bodyJsonschema = JsonschemaOf(schema),
                           !.doc.requestBody = [declared |-> TRUE, required |-> required,
                                                schema |-> OasOf(schema)]],
                       "requestBody", FALSE)

\* object[name] = value
Assigned(properties, name, value) ==
    [n \in DOMAIN properties \cup {name} |-> IF n = name THEN value ELSE properties[n]]

ResponseCodes == {200, 404}

\* String(code)
CodeKey(code) == CASE code = 200 -> "200" [] code = 404 -> "404"

\* No schema argument: undefined.
NoSchema == "undefined"

\* The documentation entry of a response: {description}, with content when a
\* schema was given.
ResponseDoc(schema) ==
    IF schema # NoSchema
    THEN [content |-> TRUE, schema |-> OasOf(schema)]
    ELSE [content |-> FALSE, schema |-> << >>]

\* Endpoint.response
draft_response(code, schema) ==
    /\ draft.calls < MaxDeclarations
    /\ \E key \in {CodeKey(code)} :
          draft' = Called([draft EXCEPT
                              !.responseSchemas =
                                  IF schema # NoSchema
                                  THEN Assigned(@, key, JsonschemaOf(schema))
                                  ELSE @,
                              !.doc.responses = Assigned(@, key, ResponseDoc(schema))],
                          "response", FALSE)

\* Endpoint.deprecate
draft_deprecate ==
    /\ draft.calls < MaxDeclarations
    /\ draft' = Called([draft EXCEPT !.doc.deprecated = TRUE], "deprecate", FALSE)

RECURSIVE addAllToSchema(_, _, _)
\* bucket.forEach(p => addToSchema(schema, p)) from the i-th parameter on.
addAllToSchema(schema, bucket, i) ==
    IF i > Len(bucket) THEN schema
    ELSE addAllToSchema(
            [ required |-> IF bucket[i].doc.required
                           THEN Append(schema.required, bucket[i].doc.name)
                           ELSE schema.required,
              properties |-> Assigned(schema.properties, bucket[i].doc.name, bucket[i].jsonschema) ],
            bucket, i + 1)

EmptyBucketSchema == [required |-> << >>, properties |-> << >>]

\* The dataSchema that define builds.
dataSchemaOf(d) ==
    [ built |-> TRUE,
      required |-> IF d.doc.requestBody.declared /\ d.doc.requestBody.required
                   THEN <<"query", "params", "headers", "body">>
                   ELSE <<"query", "params", "headers">>,
      properties |->
          [ query |-> addAllToSchema(EmptyBucketSchema, d.query, 1),
            params |-> addAllToSchema(EmptyBucketSchema, d.params, 1),
            headers |-> addAllToSchema(EmptyBucketSchema, d.headers, 1),
            body |-> IF d.doc.requestBody.declared THEN d.bodyJsonschema ELSE << >> ] ]

\* Endpoint.define: the composite schema, the path table, func, the route.
draft_define ==
    /\ draft.routed < 2
    /\ draft' = [draft EXCEPT !.dataSchema = dataSchemaOf(draft),
                              !.inPaths = TRUE,
                              !.defined = TRUE,
                              !.routed = @ + 1,
                              !.last = [op |-> "define", threw |-> FALSE]]

\* doc.paths[path][method] of the endpoint: this.doc itself, once define put
\* it there.
Fragment(d) == IF d.inPaths THEN [present |-> TRUE, doc |-> d.doc]
               ELSE [present |-> FALSE, doc |-> NewDraft.doc]

DraftIdle == draft = NewDraft

(***************************************************************************)
(* Lowering of one node: a family of source schemas                        *)
(***************************************************************************)

\* The most keywords the node under study carries.
MaxKeywords == 3

Keywords == {"description", "type", "title", "x-nullable", "dependencies", "x-validator",
             "const", "patternProperties", "properties", "allOf"}

SNamed == <<"n", "a", "m", "e", "d">>
\* A title that reads like the token schemaRefReplace leaves for a function.
STokenLike == <<"x", "-", "o", "a", "s", "-", "f", "u", "n", "c", "t", "i", "o", "n", ":", " ", "0">>

\* The schemas the node's keywords take their values from: 1 is registered
\* as P; 2, 3 and 7 are schemas to wrap in x-nullable (a reference, a oneOf
\* composite, a plain schema); 8 a dependencies map; 10 a validator list; 11
\* a patternProperties map; 13 a properties map; 15 an allOf list; 17 a
\* properties map whose properties have the names of keywords.
LowerCells ==
    << Obj(<<"type">>, <<VStr(SString)>>),
       Obj(<<"$ref">>, <<VRef(1)>>),
       Obj(<<"oneOf">>, <<VRef(4)>>),
       Arr(<<VRef(5), VRef(6)>>),
       Obj(<<"const">>, <<VStr(<<"c">>)>>),
       Obj(<<"type", "x-validator">>, <<VStr(SString), VFn(1)>>),
       Obj(<<"type", "const", "x-validator">>, <<VStr(SString), VStr(<<"c">>), VFn(2)>>),
       Obj(<<"name">>, <<VRef(9)>>),
       Arr(<<VStr(<<"i", "d">>)>>),
       Arr(<<VFn(2), VStr(SNamed)>>),
       Obj(<<"^x">>, <<VRef(12)>>),
       Obj(<<"const">>, <<VStr(<<"c">>)>>),
       Obj(<<"name">>, <<VRef(14)>>),
       Obj(<<"type">>, <<VStr(SString)>>),
       Arr(<<VRef(16)>>),
       Obj(<<"type">>, <<VStr(SString)>>),
       Obj(<<"dependencies", "const", "patternProperties", "x-nullable", "x-validator", "name">>,
           <<VRef(18), VRef(18), VRef(18), VRef(18), VRef(18), VRef(18)>>),
       Obj(<<"type">>, <<VStr(SString)>>) >>

NodeAt == Len(LowerCells) + 1
Variants == 1..3

\* The value keyword k has in the node of variant v.
KeywordValue(k, v) ==
    CASE k = "description" -> IF v = 2 THEN VStr(<< >>) ELSE VStr(<<"d">>)
      [] k = "type" -> VStr(SObject)
      [] k = "title" -> IF v = 2 THEN VStr(STokenLike) ELSE VStr(<<"t">>)
      [] k = "x-nullable" -> IF v = 1 THEN VRef(2) ELSE IF v = 2 THEN VRef(3) ELSE VRef(7)
      [] k = "dependencies" -> VRef(8)
      [] k = "x-validator" -> IF v = 1 THEN VFn(1) ELSE IF v = 2 THEN VRef(10) ELSE VStr(SNamed)
      [] k = "const" -> VStr(<<"c">>)
      [] k = "patternProperties" -> VRef(11)
      [] k = "properties" -> IF v = 2 THEN VRef(17) ELSE VRef(13)
      [] k = "allOf" -> VRef(15)

\* The sequences of distinct keywords, in every order.
KeywordLists ==
    { ks \in UNION { [1..n -> Keywords] : n \in 1..MaxKeywords } :
         \A i, j \in 1..Len(ks) : i # j => ks[i] # ks[j] }

\* The heap of the application: the cells above, the node, and for the third
\* variant an array schema whose items are the node.
LowerHeap(ks, v) ==
    LowerCells
      \o << Obj(ks, [i \in 1..Len(ks) |-> KeywordValue(ks[i], v)]) >>
      \o (IF v = 3 THEN << Obj(<<"type", "items">>, <<VStr(SArray), VRef(NodeAt)>>) >> ELSE << >>)

LowerRegistry == << Named(<<"P">>, 1) >>

\* The schema an endpoint declares, and where the node is inside it.
LowerDeclared(v) ==
    IF v = 3 THEN [root |-> NodeAt + 1, path |-> <<"items">>]
    ELSE [root |-> NodeAt, path |-> << >>]

\* An endpoint documents the declared schema, once.
lowerNode ==
    /\ outs = << >>
    /\ compile_toOasSchema(lw.root)
    /\ UNCHANGED lw

\* ... and prepares it for validation, once.
lowerNode_toJsonschema ==
    /\ outs = << >>
    /\ compile_toJsonschema(lw.root)
    /\ UNCHANGED lw

RECURSIVE Follow(_, _, _)
\* The value at a path of property names under v.
Follow(h, v, path) ==
    IF path = << >> THEN v
    ELSE Follow(h, GetKey(h[v.a], Head(path)), Tail(path))

RECURSIVE Tree(_, _)
\* The value v with every reference replaced by what it refers to.
Tree(h, v) ==
    IF v.t # "ref" THEN v
    ELSE [arr |-> h[v.a].arr, keys |-> h[v.a].keys,
          vals |-> [i \in 1..Len(h[v.a].vals) |-> Tree(h, h[v.a].vals[i])]]

LwIdle == lw = [root |-> 0, path |-> << >>, variant |-> 0]
(***************************************************************************)
(* Calls in flight together                                                *)
(***************************************************************************)

\* The most calls in flight together.
MaxCalls == 2

\* The endpoints that are served: one with a response schema for 200, one
\* without response schemas.
ServedEndpoints == << DefinedEndpoint({200}), DefinedEndpoint({}) >>

\* A request that parses and one whose path parameter does not convert.
ServedRequests ==
    { [query |-> [n \in {"q"} |-> UndefVal], params |-> [n \in {"id"} |-> id], headers |-> << >>] :
        id \in { StrVal(<<"1", "2">>), StrVal(<<"a", "b", "c">>) } }

\* What the environment does at one resumption of a call: the outcome of
\* spec.validate, of the handler, and of the two transport writes.
CallInput(vr, ho, w1, w2) == [vr |-> vr, ho |-> ho, w1 |-> w1, w2 |-> w2]

ValidOutcome == [kind |-> "valid", errors |-> << >>]
InvalidOutcome == [kind |-> "invalid", errors |-> <<"e1">>]

\* The outcomes that matter at the point where call c is suspended.
InputsAt(c) ==
    CASE c.pc = "start" ->
           { CallInput(vr, NoOutcome, FALSE, FALSE) : vr \in {ValidOutcome, InvalidOutcome} }
      [] c.pc = "parsed" /\ c.awaited.state = "resolved" ->
           { CallInput(ValidOutcome, ho, FALSE, FALSE) :
               ho \in { [kind |-> "response",
                         response |-> Response(201, ValueBody("b1"), "h1", FALSE),
                         error |-> NoErr],
                        [kind |-> "value",
                         response |-> Response(0, ValueBody("b1"), NoHeaders, FALSE),
                         error |-> NoErr],
                        [kind |-> "throw", response |-> NoResponse,
                         error |-> OtherError("handler")] } }
      [] c.pc \in {"parsed", "handling"} ->
           { CallInput(vr, NoOutcome, FALSE, FALSE) : vr \in {ValidOutcome, InvalidOutcome} }
      [] c.pc = "validatingResponse" -> { CallInput(ValidOutcome, NoOutcome, FALSE, FALSE) }
      [] OTHER -> {}

\* Endpoint.call on endpoint e, resumed from where c is suspended and run to
\* its next await or to its end.
Resumed(e, c, in) ==
    CASE c.pc = "start" ->
           LET k == FirstThrow(e, c.req)
               ps == ParamsInOrder(e)
           IN  IF k # 0
               THEN [c EXCEPT !.data = DataAfter(e, c.req, k - 1),
                              !.awaited = Rejected(FromParameterType(ps[k], Raw(c.req, ps[k]))),
                              !.pc = "parsed"]
               ELSE [c EXCEPT !.data = DataAfter(e, c.req, Len(ps)),
                              !.validations = Append(@, "request"),
                              !.awaited =
                                 CASE in.vr.kind = "throws" -> Rejected(OtherError("validator"))
                                   [] in.vr.kind = "invalid" ->
                                        Rejected(FromValidatorResult("request", in.vr))
                                   [] OTHER -> Resolved,
                              !.pc = "parsed"]
      [] c.pc = "parsed" /\ c.awaited.state = "resolved" ->
           [c EXCEPT !.handlerCalls = @ + 1,
                     !.handlerOutcome = in.ho,
                     !.awaited = IF in.ho.kind = "throw" THEN Rejected(in.ho.error) ELSE Resolved,
                     !.pc = "handling"]
      [] c.pc = "parsed" /\ c.awaited.state = "rejected" ->
           AfterSend(e, SendResponse(Catch(c, c.awaited.error), in.w1, in.w2), in.vr)
      [] c.pc = "handling" ->
           AfterSend(e,
              SendResponse(IF c.awaited.state = "rejected"
                           THEN Catch(c, c.awaited.error)
                           ELSE [c EXCEPT !.response = ResponseOf(c.handlerOutcome)],
                           in.w1, in.w2),
              in.vr)
      [] c.pc = "validatingResponse" ->
           IF c.awaited.state = "invalid"
           THEN Report([c EXCEPT !.err = FromValidatorResult("response", c.awaited)])
           ELSE Report(c)
      [] OTHER -> c

\* The Data and Response objects of a call.
RecordFrom(c) == [data |-> c.data, response |-> c.response]

\* One Data object that every call of the process uses.
NewRecord_shared(records) == 1

\* `new utils.Data(req, res, this)`: a fresh object.
NewRecord(records) == Len(records) + 1

\* The call of frame f as it stands: its local variables, and the Data and
\* Response objects they refer to.
InFlight(f) ==
    [f.c EXCEPT !.data = calls.records[f.rec].data,
                !.response = calls.records[f.rec].response]

\* A request arrives: the route handler calls endpoint.call(req, res), which
\* creates its Data object.
call_arrives(e, req) ==
    /\ Len(calls.frames) < MaxCalls
    /\ \E r \in {NewRecord(calls.records)} :
          calls' = [calls EXCEPT
                       !.records = [i \in (DOMAIN @) \cup {r} |->
                                      IF i = r THEN RecordFrom(NewCall(req)) ELSE @[i]],
                       !.frames = Append(@, [e |-> e, rec |-> r, c |-> NewCall(req),
                                             ins |-> << >>])]

\* The call of frame i is resumed and runs to its next await or to its end.
call_resumes(i, in) ==
    /\ i \in 1..Len(calls.frames)
    /\ in \in InputsAt(InFlight(calls.frames[i]))
    /\ \E c \in {Resumed(calls.endpoints[calls.frames[i].e], InFlight(calls.frames[i]), in)} :
          calls' = [calls EXCEPT
                       !.records[calls.frames[i].rec] = RecordFrom(c),
                       !.frames[i].c = c,
                       !.frames[i].ins = Append(@, in)]

(***************************************************************************)
(* The middleware form: requestValidationMW, call, responseValidationMW    *)
(***************************************************************************)

\* next(error) and next()
NextWith(error) == [withError |-> TRUE, error |-> error]
NextPlain == [withError |-> FALSE, error |-> NoErr]

\* One run of a middleware: the calls of next it made, in order, and whether
\* an error occurred in it.
StageRun(stage, failed, nexts) == [stage |-> stage, failed |-> failed, nexts |-> nexts]

\* The endpoint served: a response schema for status 200.
MwResponseSchemas == {200}

\* The request after attachDataMW: data.response = new Response(200), nothing
\* written to the transport.
Attached == [runs |-> << >>, response |-> Response(200, UndefinedBody, NoHeaders, FALSE),
             writableEnded |-> FALSE]

\* express: the next middleware of the route runs once the one before it has
\* called next with no argument.
Continues(runs) ==
    runs = << >> \/ \E i \in 1..Len(runs[Len(runs)].nexts) : ~runs[Len(runs)].nexts[i].withError

\* The calls of next a validation makes inside its try and catch.
ValidationNexts(loc, vr) ==
    CASE vr.kind = "invalid" -> << NextWith(FromValidatorResult(loc, vr)) >>
      [] vr.kind = "throws" -> << NextWith(OtherError("validate")) >>
      [] OTHER -> << >>

\* Endpoint.requestValidationMW
mw_requestValidationMW(vr) ==
    /\ Len(mw.runs) = 0
    /\ mw' = [mw EXCEPT !.runs = Append(@,
                 StageRun("requestValidationMW", vr.kind # "valid",
                          ValidationNexts("request", vr) \o <<NextPlain>>))]

\* data.response after the handler returned or threw.
MwResponseAfter(response, ho) ==
    CASE ho.kind = "response" -> ho.response
      [] ho.kind = "value" /\ ho.response.body.kind # "undefined" ->
            [response EXCEPT !.body = ho.response.body]
      [] OTHER -> response

\* Endpoint.call: the handler, then the transport write unless the response
\* was ended or is to be ignored, then next().
mw_call(ho, ended, sendThrows) ==
    /\ Len(mw.runs) = 1
    /\ Continues(mw.runs)
    /\ \E response \in {MwResponseAfter(mw.response, ho)} :
       \E sends \in {~ended /\ ~response.ignore} :
          mw' = [ runs |-> Append(mw.runs,
                     StageRun("call", ho.kind = "throw" \/ (sends /\ sendThrows),
                              (IF ho.kind = "throw" THEN << NextWith(ho.error) >> ELSE << >>)
                              \o (IF sends /\ sendThrows
                                  THEN << NextWith(OtherError("transport")) >> ELSE << >>)
                              \o <<NextPlain>>)),
                  response |-> response,
                  writableEnded |-> ended \/ (sends /\ ~sendThrows) ]

\* Endpoint.responseValidationMW
mw_responseValidationMW(vr) ==
    /\ Len(mw.runs) = 2
    /\ Continues(mw.runs)
    /\ \E validates \in {mw.response.status \in MwResponseSchemas} :
          mw' = [mw EXCEPT !.runs = Append(@,
                    StageRun("responseValidationMW", validates /\ vr.kind # "valid",
                             (IF validates THEN ValidationNexts("response", vr) ELSE << >>)
                             \o <<NextPlain>>))]

MwIdle == mw = Attached

CallsIdle == calls = [endpoints |-> << >>, records |-> << >>, frames |-> << >>]
MoreIdle == XvIdle /\ DraftIdle /\ LwIdle /\ CallsIdle /\ MwIdle

CallIdle == /\ ep = DefinedEndpoint({})
            /\ call = NewCall([query |-> << >>, params |-> << >>, headers |-> << >>])

BuildInit ==
    /\ eps = << >>
    /\ endpoints = << >>
    /\ docPaths = << >>
    /\ lastCall = [op |-> "none", operationId |-> << >>, threw |-> FALSE]

Init ==
    /\ BuildInit
    /\ ConvInit
    /\ CallIdle
    /\ CompIdle
    /\ MoreIdle

Next ==
    \/ \E o \in OperationIds, m \in Methods, p \in Paths :
          newEndpoint(o, m, p) /\ UNCHANGED <<convVars, callVars, compVars, moreVars>>
    \/ \E e \in DOMAIN eps, v \in Versions : version(e, v) /\ UNCHANGED <<convVars, callVars, compVars, moreVars>>
    \/ \E e \in DOMAIN eps : define(e) /\ UNCHANGED <<convVars, callVars, compVars, moreVars>>

Spec == Init /\ [][Next]_vars

\* C1: a newEndpoint call whose operationId is already a key of spec.endpoints
\* throws, and leaves the endpoints map, the endpoint objects and doc.paths
\* exactly as they were.
C1_DuplicateThrowsNoChange ==
    [][ (lastCall'.op = "newEndpoint" /\ lastCall'.operationId \in DOMAIN endpoints)
          => (lastCall'.threw /\ endpoints' = endpoints /\ eps' = eps /\ docPaths' = docPaths) ]_vars

\* A duplicate construction was attempted on a specification whose document
\* already holds a defined operation.
C1_Witness ==
    /\ lastCall.op = "newEndpoint"
    /\ lastCall.threw
    /\ lastCall.operationId \in DOMAIN endpoints
    /\ docPaths # << >>

BuildIdle == UNCHANGED buildVars

InitConvert ==
    /\ BuildInit
    /\ CallIdle
    /\ CompIdle
    /\ MoreIdle
    /\ \E t \in ParamTypes, item \in RawItems :
          cv = [done |-> FALSE, type |-> t, item |-> item, out |-> Returns(UndefVal)]

NextConvert == Convert /\ BuildIdle /\ UNCHANGED <<callVars, compVars, moreVars>>

SpecConvert == InitConvert /\ [][NextConvert]_vars

\* C2: for every declared type and raw value, convertParamType returns undefined
\* without error for an empty or absent value; for number it returns the numeric
\* coercion and fails exactly when that is NaN; for bool it returns true/false
\* for the case-insensitive literals and fails for every other non-empty value;
\* for string it returns the raw value unchanged.
C2_ConvertParamType ==
    cv.done =>
      LET s == cv.item.s
          empty == cv.item.kind = "undefined" \/ s = << >>
          n == StringToNumber(s)
          lower == toLowerCase(s)
      IN  /\ empty => cv.out = Returns(UndefVal)
          /\ (~empty /\ cv.type = "number") =>
                /\ cv.out.threw <=> n.nan
                /\ ~n.nan => cv.out.value = NumVal(n.n)
          /\ (~empty /\ cv.type = "bool") =>
                /\ lower = STrue => cv.out = Returns(BoolVal(TRUE))
                /\ lower = SFalse => cv.out = Returns(BoolVal(FALSE))
                /\ lower \notin {STrue, SFalse} => cv.out.threw
          /\ (~empty /\ cv.type = "string") => cv.out = Returns(cv.item)
          \* the conversions the specification lists
          /\ (cv.type = "bool" /\ s = <<"T", "R", "U", "E">>) => cv.out = Returns(BoolVal(TRUE))
          /\ (cv.type = "bool" /\ s = <<"m", "a", "y", "b", "e">>) => cv.out.threw
          /\ (cv.type = "number" /\ s = <<"1", "2">>) => cv.out = Returns(NumVal(12))
          /\ (cv.type = "number" /\ s = <<"a", "b", "c">>) => cv.out.threw

\* An upper-case "TRUE" was converted as a bool and gave true.
C2_Witness ==
    /\ cv.done
    /\ cv.type = "bool"
    /\ cv.item = StrVal(<<"T", "R", "U", "E">>)
    /\ cv.out = Returns(BoolVal(TRUE))

(***************************************************************************)
(* One call on a defined endpoint                                          *)
(***************************************************************************)

InitCall ==
    /\ BuildInit
    /\ ConvInit
    /\ CompIdle
    /\ MoreIdle
    /\ \E codes \in SchemaCodeSets : ep = DefinedEndpoint(codes)
    /\ \E req \in Requests : call = NewCall(req)

NextCall ==
    \/ \E vr \in ValidatorOutcomes :
          call_parseRequest(vr) /\ BuildIdle /\ UNCHANGED <<convVars, compVars, moreVars>>
    \/ \E ho \in HandlerOutcomes :
          call_invokeHandler(ho) /\ BuildIdle /\ UNCHANGED <<convVars, compVars, moreVars>>
    \/ \E w1 \in BOOLEAN, w2 \in BOOLEAN, vr \in ValidatorOutcomes :
          call_parseFailed(w1, w2, vr) /\ BuildIdle /\ UNCHANGED <<convVars, compVars, moreVars>>
    \/ \E w1 \in BOOLEAN, w2 \in BOOLEAN, vr \in ValidatorOutcomes :
          call_afterHandler(w1, w2, vr) /\ BuildIdle /\ UNCHANGED <<convVars, compVars, moreVars>>
    \/ call_afterResponseValidation /\ BuildIdle /\ UNCHANGED <<convVars, compVars, moreVars>>

SpecCall == InitCall /\ [][NextCall]_vars

\* The call's promise has settled.
Settled == call.pc \in {"done", "rejected"}
\* The handler was invoked and has come back.
HandlerCameBack == call.handlerCalls = 1 /\ call.pc \in {"validatingResponse", "done", "rejected"}
RecordWrites == { i \in 1..Len(call.writes) : call.writes[i].kind = "record" }

RecordWrite(r, threw) == TransportWrite("record", r.status, r.headers, r.body, threw)

\* C3: when parsing and request validation succeeded and the handler returned
\* normally, the Response record is the returned record itself, or status 200
\* with the returned value as body; unless flagged ignore, that record's status,
\* headers and body are what the pipeline writes to the transport, and nothing
\* else is written unless that write throws.
C3_ReturnedResponseIsSent ==
    (HandlerCameBack /\ call.handlerOutcome.kind \in {"response", "value"}) =>
        LET ho == call.handlerOutcome
            r == call.response
        IN  /\ ho.kind = "response" => r = ho.response
            /\ ho.kind = "value" => (r.status = 200 /\ r.body = ho.response.body /\ ~r.ignore)
            /\ ~r.ignore =>
                 /\ call.writes # << >>
                 /\ call.writes[1] = RecordWrite(r, call.writes[1].threw)
                 /\ ~call.writes[1].threw => Len(call.writes) = 1
            /\ \A i \in RecordWrites : i = 1

\* The handler returned a Response record with status 201 and headers, and
\* exactly that was written.
C3_Witness ==
    /\ call.pc = "done"
    /\ call.handlerOutcome.kind = "response"
    /\ call.handlerOutcome.response = Response(201, ValueBody("b1"), "h1", FALSE)
    /\ call.writes = << RecordWrite(call.handlerOutcome.response, FALSE) >>

\* C4: when the handler raises, a JSONValidationError gives the response 400
\* with the error as body; any other error gives status 500 and is passed to
\* responseAndErrorHandler; no success status is written.
C4_HandlerErrorMapped ==
    (Settled /\ call.handlerOutcome.kind = "throw") =>
        LET e == call.handlerOutcome.error
        IN  /\ e.name = "JSONValidationError" =>
                 /\ call.response = Response(400, ErrorBody(e), NoHeaders, FALSE)
                 /\ call.writes[1] = RecordWrite(call.response, call.writes[1].threw)
            /\ e.name # "JSONValidationError" =>
                 /\ call.response.status = 500
                 /\ call.writes[1] = RecordWrite(call.response, call.writes[1].threw)
                 /\ Len(call.reports) = 1
                 /\ call.reports[1].err = e
            /\ \A i \in 1..Len(call.writes) : call.writes[i].status >= 400

\* C5: on every path, a final Response record without ignore is written to
\* the transport exactly once (a further write is only the fallback after
\* that write threw); with ignore the pipeline writes nothing.
C5_WrittenOnceUnlessIgnored ==
    (call.pc \in {"validatingResponse", "done", "rejected"}) =>
        IF call.response.ignore
        THEN call.writes = << >>
        ELSE /\ RecordWrites = {1}
             /\ call.writes[1] = RecordWrite(call.response, call.writes[1].threw)
             /\ \A i \in 2..Len(call.writes) :
                    call.writes[i].kind = "fallback" /\ call.writes[1].threw /\ i = 2

\* The handler returned a record flagged ignore and the pipeline wrote nothing.
C5_Witness ==
    /\ call.pc = "done"
    /\ call.handlerCalls = 1
    /\ call.response.ignore
    /\ call.writes = << >>
    /\ Len(call.reports) = 1

WriteThrew == \E i \in 1..Len(call.writes) : call.writes[i].threw

\* C6: a failing write is caught and logged and the generic 500 is attempted;
\* no error raised while writing, the fallback's included, leaves
\* Endpoint.call, and the call goes on to report.
C6_WriteFailureNeverPropagates ==
    WriteThrew =>
        /\ call.logged = 1
        /\ \E i \in 1..Len(call.writes) : call.writes[i].kind = "fallback"
        /\ call.raisedBy # "fallbackWrite"
        /\ Settled => (call.reports # << >> \/ call.raisedBy = "responseValidator")

\* C7: for every call, on every path where the transport accepts the writes,
\* responseAndErrorHandler is invoked exactly once with the call's Data, the
\* final Response record and the error or undefined.
C7_ReportedExactlyOnce ==
    (Settled /\ ~WriteThrew) =>
        call.reports = << [data |-> call.data, response |-> call.response, err |-> call.err] >>

\* C8: the body is validated only when a schema is declared for the Response
\* record's status; a failed response validation is reported as a
\* JSONValidationError in "response" and changes neither the Response record
\* nor what was written to the transport.
C8_ResponseValidationObservesOnly ==
    [][ /\ (\E i \in 1..Len(call'.validations) : call'.validations[i] = "response")
             => call'.response.status \in ep.responseSchemas
        /\ call.pc = "validatingResponse" =>
             /\ call'.writes = call.writes
             /\ call'.response = call.response
             /\ call.awaited.state = "invalid" =>
                  call'.reports = << [data |-> call.data, response |-> call.response,
                                      err |-> JSONValidationError("response",
                                                [loc |-> "response", name |-> "instance", value |-> UndefVal],
                                                [i \in 1..Len(call.awaited.errors) |->
                                                    Message(call.awaited.errors[i])])] >> ]_vars

\* The handler's response was written, then failed response validation, and
\* the failure was reported.
C8_Witness ==
    /\ call.pc = "done"
    /\ call.handlerCalls = 1
    /\ call.handlerOutcome.kind = "value"
    /\ call.writes = << RecordWrite(Response(200, ValueBody("b1"), NoHeaders, FALSE), FALSE) >>
    /\ Len(call.reports) = 1
    /\ call.reports[1].err.name = "JSONValidationError"
    /\ call.reports[1].err.in = "response"
    /\ Len(call.reports[1].err.errors) = 2

(***************************************************************************)
(* Schema compilation on a constructed specification                       *)
(***************************************************************************)

InitCompile ==
    /\ BuildInit
    /\ ConvInit
    /\ CallIdle
    /\ MoreIdle
    /\ \E reg \in Registries :
          \E c \in {Constructed(reg)} :
             /\ schemas = reg
             /\ heap = c.h
             /\ outs = c.outs

NextCompile ==
    \/ \E a \in CompileRoots :
          compile_toOasSchema(a) /\ BuildIdle /\ UNCHANGED <<convVars, callVars, moreVars>>
    \/ \E a \in CompileRoots :
          compile_toJsonschema(a) /\ BuildIdle /\ UNCHANGED <<convVars, callVars, moreVars>>

SpecCompile == InitCompile /\ [][NextCompile]_vars

RefTargets(h, S) ==
    UNION { { h[a].vals[i].a : i \in { j \in 1..Len(h[a].vals) : h[a].vals[j].t = "ref" } } : a \in S }

RECURSIVE ReachFrom(_, _)
\* The addresses reachable from the addresses in S.
ReachFrom(h, S) == IF RefTargets(h, S) \subseteq S THEN S ELSE ReachFrom(h, S \cup RefTargets(h, S))

SourceCells == 1..Len(SourceHeap)

\* C9: whatever is compiled, into whichever dialect, however often and in
\* whichever order, every object the application handed over (the compiled
\* schema, everything reachable from it, every registered schema) is as it
\* was, and a compiled schema shares no object with them: it is a copy.
C9_CompileLeavesSourceUnchanged ==
    (outs # << >>) =>
        /\ \A a \in SourceCells : heap[a] = SourceHeap[a]
        /\ \A i \in 1..Len(outs) :
              ~outs[i].threw => ReachFrom(heap, {outs[i].root.a}) \cap SourceCells = {}

\* Owner, a registered schema, was compiled more than once into each dialect;
\* the copies carry allOf and oneOf, and Owner still carries x-nullable and a
\* reference to the Pet object.
C9_Witness ==
    /\ \E i, j \in 1..Len(outs) :
          /\ i # j
          /\ outs[i].schema = VRef(6) /\ outs[j].schema = VRef(6)
          /\ outs[i].dialect = "oas" /\ outs[j].dialect = "oas"
          /\ ~outs[j].threw
          /\ GetKey(heap[outs[j].root.a], "allOf").t = "ref"
          /\ GetKey(heap[outs[j].root.a], "x-nullable") = VUndef
    /\ \E i \in ByEndpoints :
          /\ outs[i].schema = VRef(6) /\ outs[i].dialect = "jsonschema"
          /\ GetKey(heap[outs[i].root.a], "oneOf").t = "ref"
    /\ GetKey(heap[6], "x-nullable") = VRef(7)
    /\ GetKey(heap[7], "$ref") = VRef(1)

\* The cells JSON.stringify visits from a schema: it does not descend into the
\* value of a $ref property.
Members(h, S) ==
    UNION { { h[a].vals[i].a : i \in { j \in 1..Len(h[a].vals) :
                                          /\ h[a].vals[j].t = "ref"
                                          /\ (h[a].arr \/ h[a].keys[j] # "$ref") } } : a \in S }

RECURSIVE Visited(_, _)
Visited(h, S) == IF Members(h, S) \subseteq S THEN S ELSE Visited(h, S \cup Members(h, S))

\* The values of the $ref properties of the cells in S.
RefValues(h, S) ==
    UNION { { h[a].vals[i] : i \in { j \in 1..Len(h[a].keys) : h[a].keys[j] = "$ref" } } : a \in S }

RegisteredObjects == { schemas[j].obj : j \in 1..Len(schemas) }

\* C10: a compile fails whenever the schema contains a $ref whose value is an
\* object that is not one of the registered objects, also when a registered
\* schema is structurally equal to it; in a compile that succeeds every $ref
\* object is rewritten to the pointer of a name that very object is
\* registered under, and no $ref of the result is an object any more.
C10_ReferencesResolveByIdentity ==
    \A i \in 1..Len(outs) :
        LET o == outs[i]
            refs == { v \in RefValues(SourceHeap, Visited(SourceHeap, {o.schema.a})) :
                         v.t \in {"ref", "null"} }
        IN  /\ (refs \ RegisteredObjects # {}) =>
                  (o.threw /\ o.missing \in refs \ RegisteredObjects)
            /\ ~o.threw =>
                  /\ { o.log[k].obj : k \in 1..Len(o.log) } = refs
                  /\ \A k \in 1..Len(o.log) :
                        \E j \in 1..Len(schemas) :
                           /\ schemas[j].obj = o.log[k].obj
                           /\ o.log[k].ptr = replaceFunc(o.dialect, schemas[j].name)
                  /\ \A v \in RefValues(heap, ReachFrom(heap, {o.root.a})) : v.t = "str"
                  /\ o.dialect = "jsonschema" =>
                        \A k \in 1..Len(o.log) :
                           VStr(o.log[k].ptr) \in RefValues(heap, ReachFrom(heap, {o.root.a}))

\* With Tag registered, a schema referring to Tag's structural clone failed
\* to compile, and a schema referring to the registered Pet object compiled
\* to the pointer for Pet's name.
C10_Witness ==
    /\ VRef(11) \in RegisteredObjects
    /\ VRef(10) \notin RegisteredObjects
    /\ SourceHeap[10] = SourceHeap[11]
    /\ \E i \in ByEndpoints :
          /\ outs[i].schema = VRef(9)
          /\ outs[i].threw
          /\ outs[i].missing = VRef(10)
    /\ \E i \in ByEndpoints :
          /\ outs[i].schema = VRef(7)
          /\ outs[i].dialect = "jsonschema"
          /\ ~outs[i].threw
          /\ GetKey(heap[outs[i].root.a], "$ref") = VStr(<<"/", "P">>)

\* doc.components.schemas after construction: a key for every declared name.
docComponentsKeys == { schemas[j].name : j \in 1..Len(schemas) }

\* The schemas of the document: what toOasSchema returned to the constructor
\* (the component table) and to the endpoints' declarations.
DocSchemas == { i \in 1..Len(outs) : outs[i].dialect = "oas" /\ ~outs[i].threw }

\* C11: on a constructed specification, in whichever order the schemas were
\* declared and whatever the endpoints declared afterwards, every $ref of the
\* document is the text #/components/schemas/N with N a key of
\* doc.components.schemas.
C11_NoDanglingPointer ==
    SpecExists =>
        \A i \in DocSchemas :
            \A v \in RefValues(heap, ReachFrom(heap, {outs[i].root.a})) :
                /\ v.t = "str"
                /\ StartsWith(v.s, OasPrefix)
                /\ SubSeq(v.s, Len(OasPrefix) + 1, Len(v.s)) \in docComponentsKeys

\* Owner was declared before the Pet it refers to: its component points at
\* Pet's key, and an endpoint's schema points at a key too.
C11_Witness ==
    /\ SpecExists
    /\ schemas[1] = Named(<<"O">>, 6)
    /\ schemas[2] = Named(<<"P">>, 1)
    /\ GetKey(heap[heap[GetKey(heap[outs[1].root.a], "allOf").a].vals[1].a], "$ref")
          = VStr(OasPrefix \o <<"P">>)
    /\ \E i \in ByEndpoints \cap DocSchemas :
          RefValues(heap, ReachFrom(heap, {outs[i].root.a})) # {}

(***************************************************************************)
(* One evaluation of the x-validator attribute                             *)
(***************************************************************************)

InitValidator ==
    /\ BuildInit
    /\ ConvInit
    /\ CallIdle
    /\ CompIdle
    /\ DraftIdle /\ LwIdle /\ CallsIdle /\ MwIdle
    /\ \E value \in KeywordValues : xv = [value |-> value, done |-> FALSE, result |-> NoResult]

NextValidator ==
    xValidator /\ BuildIdle /\ UNCHANGED <<convVars, callVars, compVars, draft, lw, calls, mw>>

SpecValidator == InitValidator /\ [][NextValidator]_vars

\* The errors the entries add when each is evaluated on its own.
RECURSIVE ErrorsOfAll(_)
ErrorsOfAll(list) ==
    IF list = << >> THEN << >> ELSE Entry(Head(list)).errors \o ErrorsOfAll(Tail(list))

Includes(message, n) == \E i \in 1..Len(message) : message[i] = n

\* C13: an entry naming a validator that the application did not register
\* raises nothing and adds an error whose message includes the name; an entry
\* that is neither a string nor a function raises nothing and adds an error.
C13_UnregisteredNameReported ==
    xv.done =>
        \A i \in 1..Len(xv.result.evaluated) :
            LET v == xv.result.evaluated[i]
            IN  /\ (v.t = "string" /\ v.n \notin DOMAIN OwnValidatorFuncs) =>
                      /\ ~Entry(v).threw
                      /\ \E k \in 1..Len(xv.result.errors) : Includes(xv.result.errors[k], v.n)
                /\ (v.t \notin {"string", "function", "undefined"}) =>
                      /\ ~Entry(v).threw
                      /\ \E k \in 1..Len(xv.result.errors) : xv.result.errors[k] = TypeMessage(v.t)

(***************************************************************************)
(* The declarations of one endpoint                                        *)
(***************************************************************************)

InitDraft ==
    /\ BuildInit
    /\ ConvInit
    /\ CallIdle
    /\ CompIdle
    /\ XvIdle /\ LwIdle /\ CallsIdle /\ MwIdle
    /\ draft = NewDraft

othersOfDraft == <<buildVars, convVars, callVars, compVars, xv, lw, calls, mw>>

NextDraft ==
    \/ \E loc \in ParamLocations, name \in ParamNames, required \in BOOLEAN,
          schema \in ParamSchemas, type \in DeclaredTypes :
          /\ (loc = "cookie" \/ type = "integer") => (name = "a" /\ required /\ schema = "s1")
          /\ draft_parameter(loc, name, required, schema, type)
          /\ UNCHANGED othersOfDraft
    \/ \E required \in BOOLEAN : draft_requestBody(required, "s1") /\ UNCHANGED othersOfDraft
    \/ \E code \in ResponseCodes, schema \in ParamSchemas \cup {NoSchema} :
          draft_response(code, schema) /\ UNCHANGED othersOfDraft
    \/ draft_deprecate /\ UNCHANGED othersOfDraft
    \/ draft_define /\ UNCHANGED othersOfDraft

SpecDraft == InitDraft /\ [][NextDraft]_vars

Bucket(d, loc) ==
    CASE loc = "query" -> d.query [] loc = "path" -> d.params [] loc = "header" -> d.headers

BucketSchema(d, loc) ==
    CASE loc = "query" -> d.dataSchema.properties.query
      [] loc = "path" -> d.dataSchema.properties.params
      [] loc = "header" -> d.dataSchema.properties.headers

InSeq(x, seq) == \E i \in 1..Len(seq) : seq[i] = x

\* C14: right after define, the composite schema requires query, params and
\* headers, requires body exactly when a body was declared as required, holds
\* every declared parameter's jsonschema under its name in the bucket of its
\* location, and lists the name as required exactly when the parameter was
\* declared required.
C14_CompositeSchema ==
    (draft.last.op = "define") =>
        /\ \A k \in {"query", "params", "headers"} : InSeq(k, draft.dataSchema.required)
        /\ InSeq("body", draft.dataSchema.required)
              <=> (draft.doc.requestBody.declared /\ draft.doc.requestBody.required)
        /\ \A loc \in {"query", "path", "header"} :
              \A i \in 1..Len(Bucket(draft, loc)) :
                 LET p == Bucket(draft, loc)[i]
                     b == BucketSchema(draft, loc)
                 IN  /\ p.doc.name \in DOMAIN b.properties
                     /\ b.properties[p.doc.name] = p.jsonschema
                     /\ InSeq(p.doc.name, b.required) <=> p.doc.required

(***************************************************************************)
(* The path table                                                          *)
(***************************************************************************)

\* The endpoints define has been called on.
Defined == { e \in DOMAIN eps : eps[e].func = "user" }

\* The endpoint objects whose doc is an operation of doc.paths.
InPathTable == UNION { { docPaths[p][m] : m \in DOMAIN docPaths[p] } : p \in DOMAIN docPaths }

\* define puts the endpoint at doc.paths[path][method], under the lower-cased
\* method, and keeps every other operation of the table.
DefinePlaces ==
    [][ \A e \in DOMAIN eps :
          define(e) =>
             /\ eps[e].path \in DOMAIN docPaths'
             /\ eps[e].method \in { <<"g", "e", "t">>, <<"p", "u", "t">> }
             /\ eps[e].method \in DOMAIN docPaths'[eps[e].path]
             /\ docPaths'[eps[e].path][eps[e].method] = e
             /\ \A p \in DOMAIN docPaths : \A m \in DOMAIN docPaths[p] :
                   (p # eps[e].path \/ m # eps[e].method)
                      => (p \in DOMAIN docPaths' /\ m \in DOMAIN docPaths'[p]
                            /\ docPaths'[p][m] = docPaths[p][m]) ]_vars

\* C15: define places the endpoint's fragment at doc.paths[path][method] with
\* the method lower-cased and leaves the operations under other paths and
\* methods as they were, and at all times every defined endpoint's fragment is
\* an operation of the path table.
C15_DefinedArePresent ==
    /\ DefinePlaces
    /\ [](Defined \subseteq InPathTable)

\* C16: every builder call made on an endpoint after its define throws, and
\* leaves the fragment registered in doc.paths as it was.
C16_ImmutableOnceDefined ==
    [][ draft.defined => (draft'.last.threw /\ Fragment(draft') = Fragment(draft)) ]_vars

\* C17: a version(v) call appends _v<v> to the operationId and prepends /v<v>
\* to the path when v is positive and the endpoint has no version yet; a call
\* with any other v, and every call on an endpoint whose version is set,
\* leaves the operationId and the path as they were.
C17_VersionOnce ==
    [][ \A e \in DOMAIN eps, v \in Versions :
          version(e, v) =>
             IF v > 0 /\ eps[e].endpointVersion = 0
             THEN /\ eps'[e].operationId = eps[e].operationId \o <<"_", "v">> \o NumStr(v)
                  /\ eps'[e].path = <<"/", "v">> \o NumStr(v) \o eps[e].path
             ELSE /\ eps'[e].operationId = eps[e].operationId
                  /\ eps'[e].path = eps[e].path ]_vars

\* An endpoint was versioned, then defined under the versioned path, and then
\* had version called on it again: it still carries the one version segment.
C17_Witness ==
    /\ lastCall.op = "version"
    /\ \E e \in Defined :
          /\ eps[e].endpointVersion = 1
          /\ eps[e].operationId = <<"a", "_", "v", "1">>
          /\ eps[e].path = <<"/", "v", "1", "/", "x">>
          /\ eps[e].path \in DOMAIN docPaths
          /\ eps[e].method \in DOMAIN docPaths[eps[e].path]
          /\ docPaths[eps[e].path][eps[e].method] = e

(***************************************************************************)
(* The lowering of one node                                                *)
(***************************************************************************)

InitLower ==
    /\ BuildInit
    /\ ConvInit
    /\ CallIdle
    /\ XvIdle /\ DraftIdle /\ CallsIdle /\ MwIdle
    /\ \E ks \in KeywordLists, v \in Variants :
          /\ heap = LowerHeap(ks, v)
          /\ lw = [root |-> LowerDeclared(v).root, path |-> LowerDeclared(v).path,
                   variant |-> v]
    /\ schemas = LowerRegistry
    /\ outs = << >>

NextLower ==
    \/ lowerNode /\ BuildIdle /\ UNCHANGED <<convVars, callVars, xv, draft, calls, mw>>
    \/ lowerNode_toJsonschema /\ BuildIdle /\ UNCHANGED <<convVars, callVars, xv, draft, calls, mw>>

SpecLower == InitLower /\ [][NextLower]_vars

\* The node of the source and the node of the compiled schema.
SourceNode == heap[NodeAt]
Lowered == outs # << >> /\ ~outs[1].threw /\ outs[1].dialect = "oas"
LoweredNode == heap[Follow(heap, outs[1].root, lw.path).a]

\* The wrapped schema compiled by itself.
WrappedAlone ==
    Once(toOasSchema(heap, schemas, GetKey(SourceNode, "x-nullable"), "endpoint"), LAMBDA c :
       Tree(c.h, c.out.root))

\* C18: the compiled form of a node carrying x-nullable has no x-nullable, has
\* an allOf of two members, the first being the wrapped schema as it compiles
\* by itself and the second {nullable: true}, and has the description
\* '(nullable)', preceded by the source description and ' - ' when there is one.
C18_NullableWraps ==
    (Lowered /\ IndexOfKey(SourceNode, "x-nullable") # 0) =>
        /\ IndexOfKey(LoweredNode, "x-nullable") = 0
        /\ GetKey(LoweredNode, "allOf").t = "ref"
        /\ \E members \in {heap[GetKey(LoweredNode, "allOf").a]} :
              /\ members.arr
              /\ Len(members.vals) = 2
              /\ Tree(heap, members.vals[1]) = WrappedAlone
              /\ Tree(heap, members.vals[2]) = Tree(<<Obj(<<"nullable">>, <<VTrue>>)>>, VRef(1))
        /\ \E d \in {GetKey(SourceNode, "description")} :
              GetKey(LoweredNode, "description") =
                 VStr(IF d.t = "str" /\ d.s # << >>
                      THEN d.s \o <<" ", "-", " ">> \o SNullable
                      ELSE SNullable)

\* A node with a description, an allOf of its own and, after them, x-nullable
\* wrapping a oneOf composite or a reference was compiled.
C18_Witness ==
    /\ Lowered
    /\ lw.variant \in {1, 2}
    /\ SourceNode.keys = <<"description", "allOf", "x-nullable">>
    /\ EndsWith(GetKey(LoweredNode, "description").s, SNullable)

\* The compiled node of the same declared schema when keyword k is left out
\* of the source node.
LoweredWithout(k) ==
    Once(toOasSchema([heap EXCEPT ![NodeAt] = DeleteKey(@, k)], schemas, VRef(lw.root), "endpoint"),
         LAMBDA c : [h |-> c.h, node |-> c.h[Follow(c.h, c.out.root, lw.path).a]])

\* C19: when the source node carries dependencies or x-validator, every other
\* keyword of the compiled node has the value it has when the same schema is
\* compiled with that keyword left out of the source node.
C19_SiblingsUntouched ==
    Lowered =>
        \A k \in {"dependencies", "x-validator"} :
            IndexOfKey(SourceNode, k) # 0 =>
               \E c \in {LoweredWithout(k)} :
                  \A k2 \in Keywords \cup {"enum"} :
                     Tree(heap, GetKey(LoweredNode, k2)) = Tree(c.h, GetKey(c.node, k2))

(***************************************************************************)
(* Calls in flight together                                                *)
(***************************************************************************)

InitCalls ==
    /\ BuildInit
    /\ ConvInit
    /\ CallIdle
    /\ CompIdle
    /\ XvIdle /\ DraftIdle /\ LwIdle /\ MwIdle
    /\ calls = [endpoints |-> ServedEndpoints, records |-> << >>, frames |-> << >>]

othersOfCalls == <<buildVars, convVars, callVars, compVars, xv, draft, lw, mw>>

NextCalls ==
    \/ \E e \in 1..Len(ServedEndpoints), req \in ServedRequests :
          call_arrives(e, req) /\ UNCHANGED othersOfCalls
    \/ \E i \in 1..MaxCalls :
          \E in \in InputsAt(IF i <= Len(calls.frames) THEN InFlight(calls.frames[i])
                             ELSE [pc |-> "none"]) :
             call_resumes(i, in) /\ UNCHANGED othersOfCalls

SpecCalls == InitCalls /\ [][NextCalls]_vars

RECURSIVE Alone(_, _, _, _)
\* The call c of endpoint e run by itself through the outcomes ins, from the
\* i-th on.
Alone(e, c, ins, i) ==
    IF i > Len(ins) THEN c
    ELSE Once(Resumed(e, c, ins[i]), LAMBDA c1 : Alone(e, c1, ins, i + 1))

\* C20: whatever the interleaving, every call in flight stands exactly where
\* it would stand had it run by itself on its endpoint with the same outcomes
\* of the validator, the handler and the transport (its data, its response,
\* what it wrote and what it reported), and the endpoints are as they were
\* defined.
C20_CallsIsolated ==
    /\ calls.endpoints = ServedEndpoints
    /\ \A i \in 1..Len(calls.frames) :
          \E f \in {calls.frames[i]} :
             InFlight(f) = Alone(ServedEndpoints[f.e], NewCall(f.c.req), f.ins, 1)

\* A call arrived and is still suspended, on its response validation; a second
\* call of the same endpoint arrived after it and ran to its end; each wrote a
\* response of its own.
C20_Witness ==
    /\ Len(calls.frames) = 2
    /\ calls.frames[1].e = calls.frames[2].e
    /\ InFlight(calls.frames[1]).pc = "validatingResponse"
    /\ InFlight(calls.frames[2]).pc = "done"
    /\ InFlight(calls.frames[1]).writes # << >>
    /\ InFlight(calls.frames[2]).writes # << >>
    /\ InFlight(calls.frames[1]).response # InFlight(calls.frames[2]).response

NotConvertible ==
    { i \in 1..Len(ParamsInOrder(ep)) :
         convertParamType(ParamsInOrder(ep)[i], Raw(call.req, ParamsInOrder(ep)[i])).threw }

\* C22: when a declared parameter's raw value does not convert, parseRequest
\* rejects with a JSONValidationError for 'request' whose instance and message
\* name the location, the name and the raw value of the first such parameter,
\* without calling spec.validate; the call then makes Response(400, that
\* error) without invoking the handler, and a call whose response carries a
\* parameter error never validated its request nor invoked the handler.
C22_ConversionFailureIs400 ==
    /\ [][ \A vr \in ValidatorOutcomes :
             (NotConvertible # {} /\ call_parseRequest(vr)) =>
                \E i \in NotConvertible :
                   /\ \A j \in NotConvertible : i <= j
                   /\ \E p \in {ParamsInOrder(ep)[i]} :
                         /\ call'.awaited.state = "rejected"
                         /\ call'.awaited.error.name = "JSONValidationError"
                         /\ call'.awaited.error.in = "request"
                         /\ call'.awaited.error.instance =
                               [loc |-> p.in, name |-> p.name, value |-> Raw(call.req, p)]
                         /\ Len(call'.awaited.error.errors) = 1
                         /\ call'.awaited.error.errors[1].loc = p.in
                         /\ call'.awaited.error.errors[1].name = p.name
                         /\ call'.awaited.error.errors[1].type = p.type
                         /\ call'.validations = << >> ]_vars
    /\ [][ (/\ call.pc = "parsed"
            /\ call.awaited.state = "rejected"
            /\ call.validations = << >>) =>
               /\ call'.response = Response(400, ErrorBody(call.awaited.error), NoHeaders, FALSE)
               /\ call'.handlerCalls = 0
               /\ call'.pc # "handling" ]_vars
    /\ []((call.response.body.kind = "error"
             /\ call.response.body.e.instance.loc \in {"query", "path", "header"})
             => /\ call.handlerCalls = 0
                /\ call.response.status = 400
                /\ \A i \in 1..Len(call.validations) : call.validations[i] # "request")

\* A call whose path parameter id was "abc" ended: it reported a 400 naming
\* path, id and "abc"; the request was not validated and the handler not invoked.
C22_Witness ==
    /\ call.pc = "done"
    /\ call.req.params["id"] = StrVal(<<"a", "b", "c">>)
    /\ call.response.status = 400
    /\ call.response.body.e.instance =
          [loc |-> "path", name |-> "id", value |-> StrVal(<<"a", "b", "c">>)]
    /\ call.handlerCalls = 0
    /\ Len(call.reports) = 1

\* The function the callback invokes for entry v, if it invokes one.
InvokedFunction(v) ==
    IF v.t = "function" THEN v.n
    ELSE IF v.t = "string" /\ validatorFuncsAt(v.n).t = "function" THEN validatorFuncsAt(v.n).n
    ELSE "none"

\* C23: when every entry of the keyword is invoked and none throws, the result
\* holds one error for each invocation that returned a non-empty string, and
\* none for an invocation that returned the empty string or nothing.
C23_ErrorIffNonEmptyString ==
    (/\ xv.done
     /\ ~xv.result.threw
     /\ \A i \in 1..Len(xv.value.items) : InvokedFunction(xv.value.items[i]) # "none") =>
        Len(xv.result.errors) =
           Cardinality({ i \in 1..Len(xv.value.items) :
                           /\ Invoke(InvokedFunction(xv.value.items[i])).defined
                           /\ Invoke(InvokedFunction(xv.value.items[i])).s # "" })

RECURSIVE Retained(_, _, _, _)
\* Every function and every other scalar under the source value vs stands at
\* the same position under the compiled value vo: the same key of the same
\* object, the same index of the same list.  A $ref is rewritten, and a schema
\* wrapped in x-nullable stands as the first member of oneOf.
Retained(hs, vs, ho, vo) ==
    IF vs.t # "ref" THEN vo = vs
    ELSE /\ vo.t = "ref"
         /\ hs[vs.a].arr = ho[vo.a].arr
         /\ IF hs[vs.a].arr
            THEN /\ Len(ho[vo.a].vals) = Len(hs[vs.a].vals)
                 /\ \A i \in 1..Len(hs[vs.a].vals) :
                       Retained(hs, hs[vs.a].vals[i], ho, ho[vo.a].vals[i])
            ELSE \A i \in 1..Len(hs[vs.a].keys) :
                    \E k \in {hs[vs.a].keys[i]} :
                       CASE k = "$ref" -> GetKey(ho[vo.a], k).t = "str"
                         [] k = "x-nullable" ->
                              /\ GetKey(ho[vo.a], "oneOf").t = "ref"
                              /\ Retained(hs, hs[vs.a].vals[i], ho,
                                          ho[GetKey(ho[vo.a], "oneOf").a].vals[1])
                         [] OTHER -> Retained(hs, hs[vs.a].vals[i], ho, GetKey(ho[vo.a], k))

JsonschemaMade == outs # << >> /\ ~outs[1].threw /\ outs[1].dialect = "jsonschema"

\* C24: the validation form of a schema keeps x-validator, holds every
\* function of the source at its position, as a keyword value and as a member
\* of a list, and holds every other scalar of the source unchanged at its
\* position.
C24_FunctionsAndScalarsRetained ==
    JsonschemaMade => Retained(heap, VRef(lw.root), heap, outs[1].root)

RECURSIVE TreeSize(_, _)
RECURSIVE TreeSizeFrom(_, _, _)
\* The number of objects and lists of the schema at address a, an object
\* counted once for every place it stands at, the value of a $ref left out.
TreeSize(h, a) == 1 + TreeSizeFrom(h, a, 1)
TreeSizeFrom(h, a, i) ==
    IF i > Len(h[a].vals) THEN 0
    ELSE (IF h[a].vals[i].t = "ref" /\ (h[a].arr \/ h[a].keys[i] # "$ref")
          THEN TreeSize(h, h[a].vals[i].a) ELSE 0)
         + TreeSizeFrom(h, a, i + 1)

\* The x-nullable keywords among the cells in S.
NullableCount(h, S) ==
    Cardinality({ a \in S : ~h[a].arr /\ IndexOfKey(h[a], "x-nullable") # 0 })

\* The schema at address a lies on a cycle of references.
OnCycle(h, a) == a \in ReachFrom(h, RefTargets(h, {a}))

\* C25: a compile of a schema whose $ref objects are all registered returns,
\* in either dialect, also when the schema lies on a cycle through those
\* references: every $ref of the result is a pointer string, the result is a
\* finite tree on no cycle, and the validation form has exactly the objects of
\* the source up to its references (and two more for each x-nullable): the
\* referenced schemas were not walked.
C25_CompileTerminates ==
    \A i \in 1..Len(outs) :
        \E o \in {outs[i]} :
           \E src \in {Visited(SourceHeap, {o.schema.a})} :
              ({ v \in RefValues(SourceHeap, src) : v.t \in {"ref", "null"} } \subseteq RegisteredObjects) =>
                 /\ ~o.threw
                 /\ \A c \in ReachFrom(heap, {o.root.a}) : ~OnCycle(heap, c)
                 /\ \A v \in RefValues(heap, ReachFrom(heap, {o.root.a})) : v.t = "str"
                 /\ o.dialect = "jsonschema" =>
                       Cardinality(ReachFrom(heap, {o.root.a})) =
                          TreeSize(SourceHeap, o.schema.a) + 2 * NullableCount(SourceHeap, src)

\* Two registered schemas that refer to each other were compiled by the
\* constructor into both dialects, and an endpoint compiled a schema that
\* refers into the cycle.
C25_Witness ==
    /\ SpecExists
    /\ OnCycle(SourceHeap, 15)
    /\ \E i, j \in 1..Len(outs) :
          /\ outs[i].schema = VRef(15) /\ outs[i].dialect = "oas" /\ ~outs[i].threw
          /\ outs[j].schema = VRef(15) /\ outs[j].dialect = "jsonschema" /\ ~outs[j].threw
    /\ \E i \in ByEndpoints : outs[i].schema = VRef(16) /\ ~outs[i].threw

\* C26: no two endpoints of the specification have the same documented
\* operationId, after any newEndpoint and version calls.
C26_OperationIdsDistinct ==
    \A e, f \in DOMAIN eps : eps[e].operationId = eps[f].operationId => e = f

\* C27: a parameter() call that throws leaves doc.parameters and the query,
\* path and header buckets as they were before the call.
C27_FailedParameterChangesNothing ==
    [][(draft'.calls = draft.calls + 1 /\ draft'.last = [op |-> "parameter", threw |-> TRUE]) =>
          /\ draft'.doc.parameters = draft.doc.parameters
          /\ draft'.query = draft.query
          /\ draft'.params = draft.params
          /\ draft'.headers = draft.headers]_vars

\* C28: after any response() calls, a validation schema is kept for a status
\* code exactly when the documentation entry of that code has a body schema,
\* and the two are compiled from the same schema.
C28_ResponseSchemasAgree ==
    \A k \in DOMAIN draft.doc.responses \cup DOMAIN draft.responseSchemas :
        /\ k \in DOMAIN draft.responseSchemas
              <=> (k \in DOMAIN draft.doc.responses /\ draft.doc.responses[k].content)
        /\ k \in DOMAIN draft.responseSchemas =>
              \E schema \in ParamSchemas :
                 /\ draft.responseSchemas[k] = JsonschemaOf(schema)
                 /\ draft.doc.responses[k].schema = OasOf(schema)

\* C29: every entry of a properties mapping of the source is in the documented
\* form under the same property name, whatever the property is called.
C29_PropertyNamesKept ==
    (Lowered /\ IndexOfKey(SourceNode, "properties") # 0) =>
        /\ GetKey(LoweredNode, "properties").t = "ref"
        /\ \E source \in {heap[GetKey(SourceNode, "properties").a]} :
           \E lowered \in {heap[GetKey(LoweredNode, "properties").a]} :
              \A i \in 1..Len(source.keys) : IndexOfKey(lowered, source.keys[i]) # 0

(***************************************************************************)
(* One request through the middleware form                                 *)
(***************************************************************************)

InitMiddleware ==
    /\ BuildInit
    /\ ConvInit
    /\ CallIdle
    /\ CompIdle
    /\ XvIdle /\ DraftIdle /\ LwIdle /\ CallsIdle
    /\ mw = Attached

othersOfMiddleware == <<buildVars, convVars, callVars, compVars, xv, draft, lw, calls>>

NextMiddleware ==
    \/ \E vr \in ValidatorOutcomes : mw_requestValidationMW(vr) /\ UNCHANGED othersOfMiddleware
    \/ \E ho \in HandlerOutcomes, ended \in BOOLEAN, sendThrows \in BOOLEAN :
          mw_call(ho, ended, sendThrows) /\ UNCHANGED othersOfMiddleware
    \/ \E vr \in ValidatorOutcomes : mw_responseValidationMW(vr) /\ UNCHANGED othersOfMiddleware

SpecMiddleware == InitMiddleware /\ [][NextMiddleware]_vars

\* C30: each of requestValidationMW, call and responseValidationMW calls next
\* exactly once in a run, with the error when one occurred in the run and with
\* no argument otherwise, and no middleware runs after one that reported an
\* error.
C30_NextExactlyOnce ==
    \A i \in 1..Len(mw.runs) :
        /\ Len(mw.runs[i].nexts) = 1
        /\ mw.runs[i].nexts[1].withError = mw.runs[i].failed
        /\ mw.runs[i].failed => i = Len(mw.runs)

====
